---- MODULE Spec2Model ----
(***************************************************************************)
(* Model of the agent policy engine: Engine (policy map, decision cache,   *)
(* enforcement mode, audit), the OPA evaluator it delegates to, and the    *)
(* transports (Server.Execute, ToolRouter.Execute) that wrap it.           *)
(*                                                                         *)
(* Strings that the code concatenates, slices or matches (agent types,     *)
(* tool names, cache keys, paths, domains, patterns) are sequences of      *)
(* one-character strings, so that CacheKey, strings.HasPrefix,             *)
(* filepath.Match, matchPrefix and matchDomain are computed as the code    *)
(* computes them.  Reasons and other opaque strings are TLA+ strings.      *)
(***************************************************************************)
EXTENDS Integers, Sequences, FiniteSets, TLC

(***************************************************************************)
(* Bounds of the model                                                     *)
(***************************************************************************)
\* total number of Evaluate / Execute calls started
MaxEvals == 2
\* total number of LoadPolicy / RemovePolicy calls started
MaxPolicyOps == 2
\* number of SetMode calls
MaxModeSets == 1
\* the clock runs from 0 to MaxTime; one tick is the cache TTL of NewEngine
MaxTime == 2
\* the cache TTL of NewEngine (60 seconds), in clock ticks
CacheTTL == 1
\* sensitivity levels run from 0 to MaxSensitivity
MaxSensitivity == 1
\* category numbers run from 0 to MaxCategory (1023 in the source)
MaxCategory == 2
\* the longest category list of a label
MaxCategories == 3
\* the longest chain of label-function calls on one input
MaxLabelCalls == 4
\* number of AuditEmitter.Log calls and of AddSink calls
MaxLogs == 2
MaxAdds == 2
\* the largest buffer of a ChannelAuditSink
MaxBuffer == 2

(***************************************************************************)
(* Decision and EnforcementMode                                            *)
(***************************************************************************)
Deny == "DENY"
Allow == "ALLOW"
Decisions == {Deny, Allow}

Permissive == "permissive"
Enforcing == "enforcing"
Modes == {Permissive, Enforcing}

(***************************************************************************)
(* Strings as sequences of characters                                      *)
(***************************************************************************)
EmptyStr == << >>

\* strings.HasPrefix(s, prefix)
HasPrefix(s, prefix) ==
    /\ Len(s) >= Len(prefix)
    /\ SubSeq(s, 1, Len(prefix)) = prefix

\* strings.HasSuffix(s, suffix)
HasSuffix(s, suffix) ==
    /\ Len(s) >= Len(suffix)
    /\ SubSeq(s, Len(s) - Len(suffix) + 1, Len(s)) = suffix

\* strings.Contains(s, c) for a one-character c
ContainsChar(s, c) == \E i \in 1..Len(s) : s[i] = c

(***************************************************************************)
(* Request parameters: interface{} values carry their dynamic type         *)
(***************************************************************************)
StrVal(s) == [kind |-> "string", str |-> s, num |-> 0]
Int64Val(n) == [kind |-> "int64", str |-> EmptyStr, num |-> n]
Float64Val(n) == [kind |-> "float64", str |-> EmptyStr, num |-> n]

\* request interface{}: nil (not a map) or a map[string]interface{}
NilRequest == [isMap |-> FALSE, fields |-> {}, params |-> [f \in {} |-> StrVal(EmptyStr)]]
MapRequest(m) == [isMap |-> TRUE, fields |-> DOMAIN m, params |-> m]

\* params[name].(string): the value and whether the assertion succeeds
IsStringParam(req, name) == name \in req.fields /\ req.params[name].kind = "string"
IsInt64Param(req, name) == name \in req.fields /\ req.params[name].kind = "int64"

(***************************************************************************)
(* Pattern matching helpers of the table path                              *)
(***************************************************************************)
\* filepath.Match for patterns made of literals, '*' and '?': '*' matches any
\* run of non-separator characters, '?' one non-separator character
RECURSIVE FilepathMatch(_, _)
FilepathMatch(pattern, name) ==
    IF pattern = EmptyStr THEN name = EmptyStr
    ELSE IF Head(pattern) = "*"
         THEN \/ FilepathMatch(Tail(pattern), name)
              \/ /\ name # EmptyStr
                 /\ Head(name) # "/"
                 /\ FilepathMatch(pattern, Tail(name))
    ELSE IF Head(pattern) = "?"
         THEN /\ name # EmptyStr
              /\ Head(name) # "/"
              /\ FilepathMatch(Tail(pattern), Tail(name))
    ELSE /\ name # EmptyStr
         /\ Head(name) = Head(pattern)
         /\ FilepathMatch(Tail(pattern), Tail(name))

\* matchPrefix: a pattern ending in "**" matches every path that starts with
\* the pattern minus its last two characters
matchPrefix(pattern, path) ==
    IF Len(pattern) > 2 /\ SubSeq(pattern, Len(pattern) - 1, Len(pattern)) = <<"*", "*">>
    THEN LET prefix == SubSeq(pattern, 1, Len(pattern) - 2)
         IN  Len(path) >= Len(prefix) /\ SubSeq(path, 1, Len(prefix)) = prefix
    ELSE FALSE

\* mutant of matchDomain: the suffix alone is a match
matchDomainSuffixOnly(pattern, domain) ==
    IF pattern = <<"*">> THEN TRUE
    ELSE IF Len(pattern) > 1 /\ pattern[1] = "*" /\ pattern[2] = "."
         THEN HasSuffix(domain, Tail(pattern))
    ELSE pattern = domain

\* matchDomain: "*" matches all, "*.x" matches a strict suffix ".x", else equality
matchDomain(pattern, domain) ==
    IF pattern = <<"*">> THEN TRUE
    ELSE IF Len(pattern) > 1 /\ pattern[1] = "*" /\ pattern[2] = "."
         THEN LET suffix == SubSeq(pattern, 2, Len(pattern))
              IN  /\ Len(domain) > Len(suffix)
                  /\ SubSeq(domain, Len(domain) - Len(suffix) + 1, Len(domain)) = suffix
    ELSE pattern = domain

(***************************************************************************)
(* ToolConstraints, ToolPermission, CompiledPolicy                         *)
(***************************************************************************)
\* the zero ToolConstraints value; a nil *ToolConstraints is HasConstraints = FALSE
NoConstraints ==
    [PathPatterns |-> << >>, AllowedDomains |-> << >>, DeniedDomains |-> << >>,
     AllowedPorts |-> << >>, MaxSizeBytes |-> 0]

ToolPermission(tool, action, hasConstraints, constraints) ==
    [Tool |-> tool, Action |-> action,
     HasConstraints |-> hasConstraints, Constraints |-> constraints]

(***************************************************************************)
(* Generated rule module (types.go, package rego)                          *)
(***************************************************************************)
\* regotempl.PolicySpec
RegoPolicySpec(name, defaultAction, toolPermissions, mtsLabel, mtsEnforceMode) ==
    [Name |-> name, DefaultAction |-> defaultAction,
     ToolPermissions |-> toolPermissions,
     MTSLabel |-> mtsLabel, MTSEnforceMode |-> mtsEnforceMode]

\* hasAnyConstraint
hasAnyConstraint(c) ==
    \/ Len(c.PathPatterns) > 0
    \/ Len(c.AllowedDomains) > 0
    \/ Len(c.DeniedDomains) > 0
    \/ Len(c.AllowedPorts) > 0
    \/ c.MaxSizeBytes > 0

\* processSpec: the template data; allow permissions become AllowRules, every
\* other action a DenyRule, in the order of the permission list
RECURSIVE SelectAllow(_)
SelectAllow(perms) ==
    IF perms = << >> THEN << >>
    ELSE IF Head(perms).Action = "allow"
         THEN << [Tool |-> Head(perms).Tool,
                  HasConstraints |-> Head(perms).HasConstraints
                                     /\ hasAnyConstraint(Head(perms).Constraints),
                  Constraints |-> Head(perms).Constraints] >> \o SelectAllow(Tail(perms))
         ELSE SelectAllow(Tail(perms))

RECURSIVE SelectDeny(_)
SelectDeny(perms) ==
    IF perms = << >> THEN << >>
    ELSE IF Head(perms).Action = "allow"
         THEN SelectDeny(Tail(perms))
         ELSE << Head(perms).Tool >> \o SelectDeny(Tail(perms))

processSpec(spec) ==
    [Name |-> spec.Name,
     DefaultAction |-> spec.DefaultAction,
     AllowRules |-> SelectAllow(spec.ToolPermissions),
     DenyRules |-> SelectDeny(spec.ToolPermissions),
     MTSEnabled |-> spec.MTSLabel # EmptyStr,
     MTSLabel |-> spec.MTSLabel,
     MTSEnforceMode |-> IF spec.MTSEnforceMode = "" THEN "strict" ELSE spec.MTSEnforceMode]

\* values in a rego.Result: interface{} with its dynamic type; an object maps
\* field names to booleans and strings
OPABool(b) == [kind |-> "bool", b |-> b, str |-> ""]
OPAString(str) == [kind |-> "string", b |-> FALSE, str |-> str]
OPAObject(fields) == [kind |-> "object", b |-> FALSE, str |-> "", fields |-> fields]
OPAScalar(v) == [kind |-> v.kind, b |-> v.b, str |-> v.str, fields |-> [f \in {} |-> v]]

\* rego.Result with its Expressions, and what PreparedQuery.Eval returns: an
\* error text ("" for none) and the result set
RegoResult(values) == [Expressions |-> [i \in 1..Len(values) |-> [Value |-> values[i]]]]
EvalOutput(err, results) == [err |-> err, results |-> results]
NoResults == EvalOutput("", << >>)

\* a rule module text: whether the OPA compiler accepts it, and either the
\* template data that determines the rules of a generated module or, for a
\* hand-written module, what its query evaluates to on every input
RegoModuleText(accepted, data) ==
    [accepted |-> accepted, data |-> data, literal |-> FALSE, out |-> NoResults]

\* CompileToRego: the template executed on processSpec(spec)
CompileToRego(spec) == RegoModuleText(TRUE, processSpec(spec))

\* the empty module text of a policy compiled without OPA
NoRegoModule ==
    RegoModuleText(FALSE, processSpec(RegoPolicySpec("", "deny", << >>, EmptyStr, "")))

\* a hand-written module that the compiler accepts
LiteralModule(out) ==
    [accepted |-> TRUE,
     data |-> processSpec(RegoPolicySpec("", "deny", << >>, EmptyStr, "")),
     literal |-> TRUE, out |-> out]

\* the tool names of a permission list
PermTools(permissions) == {permissions[i].Tool : i \in 1..Len(permissions)}

\* index of the last permission for a tool
LastIndex(permissions, tool) ==
    CHOOSE i \in 1..Len(permissions) :
        /\ permissions[i].Tool = tool
        /\ \A j \in (i+1)..Len(permissions) : permissions[j].Tool # tool

\* mutant of toolTable: an earlier permission for a tool is kept
RECURSIVE toolTableFirstWins(_, _, _)
toolTableFirstWins(permissions, i, table) ==
    IF i > Len(permissions) THEN table
    ELSE toolTableFirstWins(permissions, i + 1,
             IF permissions[i].Tool \in DOMAIN table THEN table
             ELSE [t \in DOMAIN table \cup {permissions[i].Tool} |->
                      IF t = permissions[i].Tool THEN permissions[i] ELSE table[t]])

\* the loop of CompilePolicy from index i on:
\* toolTable[permissions[i].Tool] = &permissions[i]
RECURSIVE toolTable(_, _, _)
toolTable(permissions, i, table) ==
    IF i > Len(permissions) THEN table
    ELSE toolTable(permissions, i + 1,
             [t \in DOMAIN table \cup {permissions[i].Tool} |->
                 IF t = permissions[i].Tool THEN permissions[i] ELSE table[t]])

\* CompilePolicy: builds the tool table; OPA fields disabled
CompilePolicy(name, agentTypes, defaultAction, permissions, pmode, mtsLabel) ==
    [Name |-> name,
     AgentTypes |-> agentTypes,
     DefaultAction |-> defaultAction,
     ToolTable |-> toolTable(permissions, 1, [t \in {} |-> 0]),
     Mode |-> pmode,
     MTSLabel |-> mtsLabel,
     OPAEnabled |-> FALSE,
     RegoModule |-> NoRegoModule,
     PreparedQuery |-> FALSE]

\* the nil *CompiledPolicy
NilPolicy == [nil |-> TRUE]

\* mutant of CompilePolicyWithOPA: the policy is returned without an error
\* when PrepareRegoQuery rejects the module text
CompilePolicyWithOPALenient(name, agentTypes, defaultAction, permissions, pmode, mtsLabel, regoModule) ==
    [ok |-> TRUE,
     policy |-> [CompilePolicy(name, agentTypes, defaultAction, permissions, pmode, mtsLabel)
                   EXCEPT !.RegoModule = regoModule,
                          !.OPAEnabled = TRUE,
                          !.PreparedQuery = regoModule.accepted]]

\* CompilePolicyWithOPA: the base policy plus the module; returns nil and an
\* error (ok = FALSE) when PrepareRegoQuery rejects the module text
CompilePolicyWithOPA(name, agentTypes, defaultAction, permissions, pmode, mtsLabel, regoModule) ==
    IF regoModule.accepted
    THEN [ok |-> TRUE,
          policy |-> [CompilePolicy(name, agentTypes, defaultAction, permissions, pmode, mtsLabel)
                        EXCEPT !.RegoModule = regoModule,
                               !.OPAEnabled = TRUE,
                               !.PreparedQuery = TRUE]]
    ELSE [ok |-> FALSE, policy |-> NilPolicy]

(***************************************************************************)
(* Table path: Engine.evaluatePolicy and Engine.checkConstraints           *)
(***************************************************************************)
\* mutant of PathOK: a request without a string path fails the patterns
PathRequired(constraints, req) ==
    IF Len(constraints.PathPatterns) > 0
    THEN /\ IsStringParam(req, "path")
         /\ \E i \in 1..Len(constraints.PathPatterns) :
               \/ FilepathMatch(constraints.PathPatterns[i], req.params["path"].str)
               \/ matchPrefix(constraints.PathPatterns[i], req.params["path"].str)
    ELSE TRUE

\* the path-pattern block of checkConstraints
PathOK(constraints, req) ==
    IF Len(constraints.PathPatterns) > 0 /\ IsStringParam(req, "path")
    THEN \E i \in 1..Len(constraints.PathPatterns) :
            \/ FilepathMatch(constraints.PathPatterns[i], req.params["path"].str)
            \/ matchPrefix(constraints.PathPatterns[i], req.params["path"].str)
    ELSE TRUE

\* the allowed-domains block
AllowedDomainOK(constraints, req) ==
    IF Len(constraints.AllowedDomains) > 0 /\ IsStringParam(req, "domain")
    THEN \E i \in 1..Len(constraints.AllowedDomains) :
            matchDomain(constraints.AllowedDomains[i], req.params["domain"].str)
    ELSE TRUE

\* mutant of DeniedDomainOK: the denied list is not read
DeniedDomainSkipped(constraints, req) == TRUE

\* the denied-domains block
DeniedDomainOK(constraints, req) ==
    IF Len(constraints.DeniedDomains) > 0 /\ IsStringParam(req, "domain")
    THEN \A i \in 1..Len(constraints.DeniedDomains) :
            ~matchDomain(constraints.DeniedDomains[i], req.params["domain"].str)
    ELSE TRUE

\* the size block: only an int64 size is compared
SizeOK(constraints, req) ==
    IF constraints.MaxSizeBytes > 0 /\ IsInt64Param(req, "size")
    THEN req.params["size"].num <= constraints.MaxSizeBytes
    ELSE TRUE

\* checkConstraints: a request that is no map passes; AllowedPorts is not read
checkConstraints(constraints, toolName, req) ==
    IF ~req.isMap THEN TRUE
    ELSE /\ PathOK(constraints, req)
         /\ AllowedDomainOK(constraints, req)
         /\ DeniedDomainOK(constraints, req)
         /\ SizeOK(constraints, req)

DecisionOf(decision, reason) == [decision |-> decision, reason |-> reason]

\* mutant of evaluatePolicy: the tool table is not consulted
evaluatePolicyDefaultOnly(policy, toolName, req) ==
    IF policy.DefaultAction = Allow
    THEN DecisionOf(Allow, "allowed by default policy")
    ELSE DecisionOf(Deny, "denied by default policy")

\* evaluatePolicy
evaluatePolicy(policy, toolName, req) ==
    IF toolName \in DOMAIN policy.ToolTable
    THEN LET perm == policy.ToolTable[toolName]
         IN  IF perm.Action = Deny
             THEN DecisionOf(Deny, "tool explicitly denied by policy")
             ELSE IF perm.HasConstraints /\ ~checkConstraints(perm.Constraints, toolName, req)
                  THEN DecisionOf(Deny, "constraint violation")
                  ELSE DecisionOf(Allow, "tool explicitly allowed by policy")
    ELSE IF policy.DefaultAction = Allow
         THEN DecisionOf(Allow, "allowed by default policy")
         ELSE DecisionOf(Deny, "denied by default policy")

\* mutant of applyMode: the mode is ignored
applyModeIgnored(m, decision) == decision

\* applyMode
applyMode(m, decision) ==
    IF m = Permissive /\ decision = Deny THEN Allow ELSE decision

\* shouldUseOPA
shouldUseOPA(engineUseOPA, policy) ==
    engineUseOPA /\ policy.OPAEnabled /\ policy.PreparedQuery

(***************************************************************************)
(* Decision cache                                                          *)
(***************************************************************************)
\* CacheKey: agentType + ":" + toolName
CacheKey(agentType, toolName) == agentType \o <<":">> \o toolName

\* cacheEntry; ver is a history field (the policy version the decision was
\* computed from), not a field of the code
CacheEntry(decision, reason, expiresAt, v) ==
    [decision |-> decision, reason |-> reason, expiresAt |-> expiresAt, ver |-> v]

\* mutant of Expired: an entry expires at its expiry time, not after it
ExpiredOnArrival(entry, t) == t >= entry.expiresAt

\* time.Now().After(entry.expiresAt)
Expired(entry, t) == t > entry.expiresAt

\* mutant of CacheSet: nothing is stored
CacheSetDropped(c, key, decision, reason, t, v) == c

\* DecisionCache.Set at time t
CacheSet(c, key, decision, reason, t, v) ==
    [k \in DOMAIN c \cup {key} |->
        IF k = key THEN CacheEntry(decision, reason, t + CacheTTL, v) ELSE c[k]]

\* entries.Delete(key)
CacheDelete(c, key) == [k \in DOMAIN c \ {key} |-> c[k]]

\* mutant of InvalidatePrefix: nothing is removed
InvalidatePrefixKeepAll(c, prefix) == c

\* DecisionCache.InvalidatePrefix
InvalidatePrefix(c, prefix) ==
    [k \in {x \in DOMAIN c : ~HasPrefix(x, prefix)} |-> c[k]]

\* DecisionCache.InvalidateAll
InvalidateAllEntries(c) == [k \in {} |-> 0]

\* greatest common divisor, for rates kept as fractions in lowest terms
RECURSIVE Gcd(_, _)
Gcd(a, b) == IF b = 0 THEN a ELSE Gcd(b, a % b)

\* the quotient n / d as a number: a fraction in lowest terms (the float64
\* of the code without its rounding)
Quotient(n, d) == [num |-> n \div Gcd(n, d), den |-> d \div Gcd(n, d)]

\* mutant of Stats: the rate of misses
StatsMissRate(h, m) ==
    [hits |-> h, misses |-> m,
     hitRate |-> IF h + m > 0 THEN Quotient(m * 100, h + m) ELSE Quotient(0, 1)]

\* DecisionCache.Stats: hitRate = float64(hits) / float64(total) * 100 when
\* total > 0, else the zero value
Stats(h, m) ==
    [hits |-> h, misses |-> m,
     hitRate |-> IF h + m > 0 THEN Quotient(h * 100, h + m) ELSE Quotient(0, 1)]

(***************************************************************************)
(* Evaluation of a generated rule module on an input document              *)
(***************************************************************************)
\* glob.match(pattern, [], s): with no delimiters given the delimiter is ".";
\* "**" matches any run of characters, "*" any run without the delimiter
RECURSIVE GlobMatch(_, _)
GlobMatch(pattern, name) ==
    IF pattern = EmptyStr THEN name = EmptyStr
    ELSE IF Len(pattern) >= 2 /\ pattern[1] = "*" /\ pattern[2] = "*"
         THEN \/ GlobMatch(Tail(Tail(pattern)), name)
              \/ /\ name # EmptyStr
                 /\ GlobMatch(pattern, Tail(name))
    ELSE IF Head(pattern) = "*"
         THEN \/ GlobMatch(Tail(pattern), name)
              \/ /\ name # EmptyStr
                 /\ Head(name) # "."
                 /\ GlobMatch(pattern, Tail(name))
    ELSE /\ name # EmptyStr
         /\ Head(name) = Head(pattern)
         /\ GlobMatch(Tail(pattern), Tail(name))

\* path_allowed_<tool>(input.request.path): undefined for a missing or
\* non-string path, else some pattern matches
RegoPathAllowed(c, req) ==
    /\ IsStringParam(req, "path")
    /\ \E i \in 1..Len(c.PathPatterns) : GlobMatch(c.PathPatterns[i], req.params["path"].str)

\* one line of a domain helper body: endswith for "*.x", equality otherwise
RegoDomainLine(pattern, domain) ==
    IF HasPrefix(pattern, <<"*", ".">>)
    THEN HasSuffix(domain, Tail(pattern))
    ELSE domain = pattern

\* domain_allowed_<tool>(input.request.domain): one rule body per pattern
RegoDomainAllowed(c, req) ==
    /\ IsStringParam(req, "domain")
    /\ \E i \in 1..Len(c.AllowedDomains) :
          RegoDomainLine(c.AllowedDomains[i], req.params["domain"].str)

\* domain_denied_<tool>(input.request.domain): every pattern line is in the
\* one rule body
RegoDomainDenied(c, req) ==
    /\ IsStringParam(req, "domain")
    /\ \A i \in 1..Len(c.DeniedDomains) :
          RegoDomainLine(c.DeniedDomains[i], req.params["domain"].str)

\* input.request.port in {...}
RegoPortIn(c, req) ==
    /\ "port" \in req.fields
    /\ req.params["port"].kind \in {"int64", "float64"}
    /\ \E i \in 1..Len(c.AllowedPorts) : c.AllowedPorts[i] = req.params["port"].num

\* input.request.size <= MaxSizeBytes
RegoSizeLE(c, req) ==
    /\ "size" \in req.fields
    /\ req.params["size"].kind \in {"int64", "float64"}
    /\ req.params["size"].num <= c.MaxSizeBytes

\* the lines generateConstraintRego emits, conjoined in the allow rule body
RegoConstraintsHold(c, req) ==
    /\ Len(c.PathPatterns) > 0 => RegoPathAllowed(c, req)
    /\ Len(c.AllowedDomains) > 0 => RegoDomainAllowed(c, req)
    /\ Len(c.DeniedDomains) > 0 => ~RegoDomainDenied(c, req)
    /\ Len(c.AllowedPorts) > 0 => RegoPortIn(c, req)
    /\ c.MaxSizeBytes > 0 => RegoSizeLE(c, req)

\* rule allow: the default, or some allow rule body holds
RegoAllow(data, toolName, req) ==
    \/ data.DefaultAction = "allow"
    \/ \E i \in 1..Len(data.AllowRules) :
          /\ data.AllowRules[i].Tool = toolName
          /\ data.AllowRules[i].HasConstraints
                => RegoConstraintsHold(data.AllowRules[i].Constraints, req)

\* rule deny: default false, or some deny rule body holds
RegoDeny(data, toolName) ==
    \E i \in 1..Len(data.DenyRules) : data.DenyRules[i] = toolName

\* "default mts_allow := true"
DefaultMtsAllow == TRUE

\* some mts_allow rule body of the generated MTS section holds: in strict
\* mode with a label the two label comparisons, otherwise "mts_allow := true"
RegoMtsRule(data, agentLabel) ==
    IF data.MTSEnabled /\ data.MTSEnforceMode = "strict"
    THEN agentLabel = data.MTSLabel \/ data.MTSLabel = EmptyStr
    ELSE TRUE

\* rule mts_allow: the value of a rule body that holds, else the default
RegoMtsAllow(data, agentLabel) ==
    IF RegoMtsRule(data, agentLabel) THEN TRUE ELSE DefaultMtsAllow

\* data.agentpolicy.decision: the object is defined only when final_allow is,
\* that is when allow, not deny and mts_allow hold (final_allow has no default)
RegoDecision(data, toolName, req, agentLabel) ==
    IF /\ RegoAllow(data, toolName, req)
       /\ ~RegoDeny(data, toolName)
       /\ RegoMtsAllow(data, agentLabel)
    THEN [defined |-> TRUE,
          value |-> OPAObject([f \in {"allow", "deny", "mts", "reason"} |->
                       CASE f = "allow" -> OPABool(TRUE)
                         [] f = "deny" -> OPABool(FALSE)
                         [] f = "mts" -> OPABool(TRUE)
                         [] f = "reason" -> OPAString("tool explicitly allowed")])]
    ELSE [defined |-> FALSE, value |-> OPAScalar(OPABool(FALSE))]

\* PreparedQuery.Eval: an undefined query gives the empty result set
RegoEval(module, toolName, req, agentLabel) ==
    IF module.literal THEN module.out
    ELSE LET d == RegoDecision(module.data, toolName, req, agentLabel)
         IN  IF d.defined THEN EvalOutput("", << RegoResult(<< d.value >>) >>)
             ELSE NoResults

\* decision[name].(bool) and decision[name].(string) on the decision object
IsBoolField(value, name) == name \in DOMAIN value.fields /\ value.fields[name].kind = "bool"
IsStringField(value, name) ==
    name \in DOMAIN value.fields /\ value.fields[name].kind = "string"

\* mutant of extractDecision: allow is read before deny
extractDecisionAllowFirst(result) ==
    IF Len(result.Expressions) = 0 THEN DecisionOf(Deny, "no expressions in OPA result")
    ELSE LET value == result.Expressions[1].Value
             reason == IF IsStringField(value, "reason") THEN value.fields["reason"].str
                       ELSE "policy decision"
         IN  IF value.kind # "object"
             THEN IF value.kind = "bool"
                  THEN IF value.b THEN DecisionOf(Allow, "allowed by OPA policy")
                       ELSE DecisionOf(Deny, "denied by OPA policy")
                  ELSE DecisionOf(Deny, "unexpected OPA result type")
             ELSE IF IsBoolField(value, "mts") /\ ~value.fields["mts"].b
                  THEN DecisionOf(Deny, "MTS violation: " \o reason)
             ELSE IF IsBoolField(value, "allow") /\ value.fields["allow"].b
                  THEN DecisionOf(Allow, reason)
             ELSE IF IsBoolField(value, "deny") /\ value.fields["deny"].b
                  THEN DecisionOf(Deny, reason)
             ELSE DecisionOf(Deny, "denied by default: " \o reason)

\* OPAEvaluator.extractDecision
extractDecision(result) ==
    IF Len(result.Expressions) = 0 THEN DecisionOf(Deny, "no expressions in OPA result")
    ELSE LET value == result.Expressions[1].Value
             reason == IF IsStringField(value, "reason") THEN value.fields["reason"].str
                       ELSE "policy decision"
         IN  IF value.kind # "object"
             THEN IF value.kind = "bool"
                  THEN IF value.b THEN DecisionOf(Allow, "allowed by OPA policy")
                       ELSE DecisionOf(Deny, "denied by OPA policy")
                  ELSE DecisionOf(Deny, "unexpected OPA result type")
             ELSE IF IsBoolField(value, "mts") /\ ~value.fields["mts"].b
                  THEN DecisionOf(Deny, "MTS violation: " \o reason)
             ELSE IF IsBoolField(value, "deny") /\ value.fields["deny"].b
                  THEN DecisionOf(Deny, reason)
             ELSE IF IsBoolField(value, "allow") /\ value.fields["allow"].b
                  THEN DecisionOf(Allow, reason)
             ELSE DecisionOf(Deny, "denied by default: " \o reason)

\* Engine.evaluateOPA: a request that is no map becomes the empty map
OPAParams(req) == IF req.isMap THEN req ELSE MapRequest([f \in {} |-> StrVal(EmptyStr)])

\* what PreparedQuery.Eval returns to OPAEvaluator.Evaluate for a loaded policy
OPAOutput(opaPols, agentType, agentLabel, toolName, params) ==
    RegoEval(opaPols[agentType].RegoModule, toolName, params, agentLabel)

\* OPAEvaluator.Evaluate after the policy lookup, and Engine.evaluateOPA's
\* handling of its error
OPAInterpret(out) ==
    IF out.err # "" THEN DecisionOf(Deny, "OPA evaluation error: " \o out.err)
    ELSE IF Len(out.results) = 0 THEN DecisionOf(Deny, "OPA returned no results")
    ELSE extractDecision(out.results[1])

\* OPAEvaluator.Evaluate over the evaluator's own policy map
OPAEvaluate(opaPols, agentType, agentLabel, toolName, params) ==
    IF agentType \notin DOMAIN opaPols
    THEN DecisionOf(Deny, "no OPA policy defined for agent type")
    ELSE OPAInterpret(OPAOutput(opaPols, agentType, agentLabel, toolName, params))

\* OPAPolicy as OPAEvaluator.LoadPolicy builds it
OPAPolicy(name, agentTypes, regoModule, mtsLabel, pmode) ==
    [Name |-> name, AgentTypes |-> agentTypes, RegoModule |-> regoModule,
     MTSLabel |-> mtsLabel, Mode |-> pmode]

(***************************************************************************)
(* Transport helpers (RouterPolicyIntegration)                             *)
(***************************************************************************)
\* strings.ToLower on one character
ToLowerChar(c) ==
    CASE c = "A" -> "a" [] c = "B" -> "b" [] c = "C" -> "c" [] c = "D" -> "d"
      [] c = "E" -> "e" [] c = "F" -> "f" [] c = "G" -> "g" [] c = "H" -> "h"
      [] c = "I" -> "i" [] c = "J" -> "j" [] c = "K" -> "k" [] c = "L" -> "l"
      [] c = "M" -> "m" [] c = "N" -> "n" [] c = "O" -> "o" [] c = "P" -> "p"
      [] c = "Q" -> "q" [] c = "R" -> "r" [] c = "S" -> "s" [] c = "T" -> "t"
      [] c = "U" -> "u" [] c = "V" -> "v" [] c = "W" -> "w" [] c = "X" -> "x"
      [] c = "Y" -> "y" [] c = "Z" -> "z" [] OTHER -> c

IsUpperChar(c) == ToLowerChar(c) # c

ToLower(s) == [i \in 1..Len(s) |-> ToLowerChar(s[i])]

\* the CamelCase loop: a "." before every upper-case character but the first
RECURSIVE InsertDots(_, _)
InsertDots(s, i) ==
    IF i > Len(s) THEN << >>
    ELSE (IF i > 1 /\ IsUpperChar(s[i]) THEN <<".", s[i]>> ELSE <<s[i]>>)
         \o InsertDots(s, i + 1)

\* strings.ReplaceAll(s, "_", ".")
UnderscoreToDot(s) == [i \in 1..Len(s) |-> IF s[i] = "_" THEN "." ELSE s[i]]

\* extractToolName
\* mutant of extractToolName: three exclusive cases, the underscores being
\* replaced only in a name without a later upper-case letter
extractToolNameExclusive(rawName) ==
    IF rawName = EmptyStr THEN EmptyStr
    ELSE IF ContainsChar(rawName, ".") THEN ToLower(rawName)
    ELSE IF \E i \in 2..Len(rawName) : IsUpperChar(rawName[i])
         THEN ToLower(InsertDots(rawName, 1))
    ELSE ToLower(UnderscoreToDot(rawName))

extractToolName(rawName) ==
    IF rawName = EmptyStr THEN EmptyStr
    ELSE IF ContainsChar(rawName, ".") THEN ToLower(rawName)
    ELSE UnderscoreToDot(ToLower(InsertDots(rawName, 1)))

(***************************************************************************)
(* The inputs of the model                                                 *)
(***************************************************************************)
\* agent types; the second one contains the key separator
\* a tenant label: *MTSLabel, nil or a sensitivity and a category list
NilLabel == [nil |-> TRUE, Sensitivity |-> 0, Categories |-> << >>]
MTSLabel(sensitivity, categories) ==
    [nil |-> FALSE, Sensitivity |-> sensitivity, Categories |-> categories]

\* the inner loop of containsAll: j advances while a[j] < x (indices from 1)
RECURSIVE advance(_, _, _)
advance(a, j, x) == IF j <= Len(a) /\ a[j] < x THEN advance(a, j + 1, x) ELSE j

\* the outer loop of containsAll from i, with the position j kept across
\* iterations
RECURSIVE containsAllFrom(_, _, _, _)
containsAllFrom(a, b, i, j) ==
    IF i > Len(b) THEN TRUE
    ELSE LET j2 == advance(a, j, b[i])
         IN  IF j2 > Len(a) \/ a[j2] # b[i] THEN FALSE
             ELSE containsAllFrom(a, b, i + 1, j2)

\* containsAll(a, b)
containsAll(a, b) == containsAllFrom(a, b, 1, 1)

\* mutant of CanAccess: the sensitivity comparison is left out
CanAccessAnySensitivity(l, object) ==
    IF l.nil \/ object.nil THEN TRUE
    ELSE IF Len(l.Categories) = 0 THEN Len(object.Categories) = 0
    ELSE IF Len(object.Categories) = 0 THEN TRUE
    ELSE containsAll(l.Categories, object.Categories)

\* MTSLabel.CanAccess
CanAccess(l, object) ==
    IF l.nil \/ object.nil THEN TRUE
    ELSE IF l.Sensitivity < object.Sensitivity THEN FALSE
    ELSE IF Len(l.Categories) = 0 THEN Len(object.Categories) = 0
    ELSE IF Len(object.Categories) = 0 THEN TRUE
    ELSE containsAll(l.Categories, object.Categories)

(***************************************************************************)
(* Tenant labels as text: ParseMTSLabel, MTSLabel.String, Equals,          *)
(* GenerateMTSLabel.  Text is a sequence of one-character strings.         *)
(***************************************************************************)
\* the characters strings.TrimSpace removes that the inputs use
WhiteSpace == {" ", "\t"}

DigitSeq == <<"0", "1", "2", "3", "4", "5", "6", "7", "8", "9">>
IsDigit(ch) == \E i \in 1..10 : DigitSeq[i] = ch
DigitVal(ch) == (CHOOSE i \in 1..10 : DigitSeq[i] = ch) - 1

\* strings.TrimSpace
RECURSIVE TrimLeft(_)
TrimLeft(str) ==
    IF str # << >> /\ Head(str) \in WhiteSpace THEN TrimLeft(Tail(str)) ELSE str

RECURSIVE TrimRight(_)
TrimRight(str) ==
    IF str # << >> /\ str[Len(str)] \in WhiteSpace
    THEN TrimRight(SubSeq(str, 1, Len(str) - 1)) ELSE str

TrimSpace(str) == TrimRight(TrimLeft(str))

\* strings.Index for a one-character separator: 0 when absent
IndexOf(str, sep) ==
    IF \E i \in 1..Len(str) : str[i] = sep
    THEN CHOOSE i \in 1..Len(str) : str[i] = sep /\ \A j \in 1..(i - 1) : str[j] # sep
    ELSE 0

\* strings.SplitN(str, sep, 2)
SplitN2(str, sep) ==
    LET i == IndexOf(str, sep)
    IN  IF i = 0 THEN << str >>
        ELSE << SubSeq(str, 1, i - 1), SubSeq(str, i + 1, Len(str)) >>

\* strings.Split(str, sep)
RECURSIVE Split(_, _)
Split(str, sep) ==
    LET i == IndexOf(str, sep)
    IN  IF i = 0 THEN << str >>
        ELSE << SubSeq(str, 1, i - 1) >> \o Split(SubSeq(str, i + 1, Len(str)), sep)

\* the value of a digit string, most significant digit first
RECURSIVE DigitsValue(_)
DigitsValue(str) ==
    IF str = << >> THEN 0
    ELSE 10 * DigitsValue(SubSeq(str, 1, Len(str) - 1)) + DigitVal(str[Len(str)])

\* strconv.Atoi: an optional sign, then one or more decimal digits (inputs
\* are short, so the value is in range of int)
Atoi(str) ==
    LET signed == str # << >> /\ Head(str) \in {"+", "-"}
        body == IF signed THEN Tail(str) ELSE str
    IN  IF body = << >> \/ \E i \in 1..Len(body) : ~IsDigit(body[i])
        THEN [ok |-> FALSE, val |-> 0]
        ELSE [ok |-> TRUE,
              val |-> IF signed /\ Head(str) = "-" THEN 0 - DigitsValue(body)
                      ELSE DigitsValue(body)]

\* strconv.Itoa / %d for a non-negative integer
RECURSIVE Itoa(_)
Itoa(n) ==
    IF n < 10 THEN << DigitSeq[n + 1] >>
    ELSE Itoa(n \div 10) \o << DigitSeq[(n % 10) + 1] >>

\* sort.Ints: insertion of x into a sorted list
RECURSIVE InsertSorted(_, _)
InsertSorted(x, sorted) ==
    IF sorted = << >> THEN << x >>
    ELSE IF x <= Head(sorted) THEN << x >> \o sorted
    ELSE << Head(sorted) >> \o InsertSorted(x, Tail(sorted))

RECURSIVE SortInts(_)
SortInts(cats) ==
    IF cats = << >> THEN << >> ELSE InsertSorted(Head(cats), SortInts(Tail(cats)))

\* the loop of uniqueSorted over the sorted list, with prev
RECURSIVE dedupe(_, _)
dedupe(sorted, prev) ==
    IF sorted = << >> THEN << >>
    ELSE IF Head(sorted) # prev
         THEN << Head(sorted) >> \o dedupe(Tail(sorted), Head(sorted))
         ELSE dedupe(Tail(sorted), prev)

\* mutant of uniqueSorted: sorted, repetitions kept
uniqueSortedKeepAll(cats) == IF Len(cats) = 0 THEN cats ELSE SortInts(cats)

\* uniqueSorted
uniqueSorted(cats) == IF Len(cats) = 0 THEN cats ELSE dedupe(SortInts(cats), 0 - 1)

\* what ParseMTSLabel returns: a label and no error, or no label and an error
ParseOK(label) == [ok |-> TRUE, err |-> "", label |-> label]
ParseErr(err) == [ok |-> FALSE, err |-> err, label |-> NilLabel]
ErrInvalidMTSLabel == "invalid MTS label format"
ErrCategoryOutOfRange == "category out of range (0-1023)"

\* the category loop of ParseMTSLabel over the split tokens: the numbers
\* appended so far, or the first error
RECURSIVE parseCategories(_, _)
parseCategories(catStrs, cats) ==
    IF catStrs = << >> THEN [ok |-> TRUE, err |-> "", cats |-> cats]
    ELSE LET catStr == TrimSpace(Head(catStrs))
         IN  IF ~HasPrefix(catStr, <<"c">>)
             THEN [ok |-> FALSE, err |-> ErrInvalidMTSLabel, cats |-> << >>]
             ELSE LET catNum == Atoi(Tail(catStr))
                  IN  IF ~catNum.ok
                      THEN [ok |-> FALSE, err |-> ErrInvalidMTSLabel, cats |-> << >>]
                      ELSE IF catNum.val < 0 \/ catNum.val > MaxCategory
                      THEN [ok |-> FALSE, err |-> ErrCategoryOutOfRange, cats |-> << >>]
                      ELSE parseCategories(Tail(catStrs), Append(cats, catNum.val))

\* ParseMTSLabel
ParseMTSLabel(str) ==
    IF str = EmptyStr THEN ParseOK(MTSLabel(0, << >>))
    ELSE LET t == TrimSpace(str)
             parts == SplitN2(t, ":")
         IN  IF ~HasPrefix(parts[1], <<"s">>) THEN ParseErr(ErrInvalidMTSLabel)
             ELSE LET sensitivity == Atoi(Tail(parts[1]))
                  IN  IF ~sensitivity.ok \/ sensitivity.val < 0
                      THEN ParseErr(ErrInvalidMTSLabel)
                      ELSE IF Len(parts) = 2 /\ parts[2] # EmptyStr
                      THEN LET c == parseCategories(Split(parts[2], ","), << >>)
                           IN  IF ~c.ok THEN ParseErr(c.err)
                               ELSE ParseOK(MTSLabel(sensitivity.val, uniqueSorted(c.cats)))
                      ELSE ParseOK(MTSLabel(sensitivity.val, << >>))

\* strings.Join of the "c%d" texts with ","
RECURSIVE JoinCategories(_)
JoinCategories(cats) ==
    IF cats = << >> THEN << >>
    ELSE IF Len(cats) = 1 THEN <<"c">> \o Itoa(cats[1])
    ELSE <<"c">> \o Itoa(cats[1]) \o <<",">> \o JoinCategories(Tail(cats))

\* mutant of String: a blank after each comma
RECURSIVE JoinCategoriesSpaced(_)
JoinCategoriesSpaced(cats) ==
    IF cats = << >> THEN << >>
    ELSE IF Len(cats) = 1 THEN <<"c">> \o Itoa(cats[1])
    ELSE <<"c">> \o Itoa(cats[1]) \o <<",", " ">> \o JoinCategoriesSpaced(Tail(cats))

StringSpaced(l) ==
    IF l.nil THEN EmptyStr
    ELSE IF Len(l.Categories) = 0 THEN <<"s">> \o Itoa(l.Sensitivity)
    ELSE <<"s">> \o Itoa(l.Sensitivity) \o <<":">> \o JoinCategoriesSpaced(l.Categories)

\* MTSLabel.String
String(l) ==
    IF l.nil THEN EmptyStr
    ELSE IF Len(l.Categories) = 0 THEN <<"s">> \o Itoa(l.Sensitivity)
    ELSE <<"s">> \o Itoa(l.Sensitivity) \o <<":">> \o JoinCategories(l.Categories)

\* MTSLabel.Equals
Equals(l, other) ==
    IF l.nil /\ other.nil THEN TRUE
    ELSE IF l.nil \/ other.nil THEN FALSE
    ELSE IF l.Sensitivity # other.Sensitivity THEN FALSE
    ELSE IF Len(l.Categories) # Len(other.Categories) THEN FALSE
    ELSE \A i \in 1..Len(l.Categories) : l.Categories[i] = other.Categories[i]

\* mutant of GenerateMTSLabel: a collision of the two hash values is kept
GenerateMTSLabelNoBump(hash, tenantID) ==
    IF tenantID = EmptyStr THEN MTSLabel(0, << >>)
    ELSE MTSLabel(0, uniqueSorted(<<hash[tenantID][0], hash[tenantID][1]>>))

\* GenerateMTSLabel, given what hashToCategory returns for each tenant id and
\* seed
GenerateMTSLabel(hash, tenantID) ==
    IF tenantID = EmptyStr THEN MTSLabel(0, << >>)
    ELSE LET cat1 == hash[tenantID][0]
             h2 == hash[tenantID][1]
             cat2 == IF cat1 = h2 THEN (h2 + 1) % (MaxCategory + 1) ELSE h2
         IN  MTSLabel(0, uniqueSorted(<<cat1, cat2>>))

AgentA == <<"a">>
AgentAB == <<"a", ":", "b">>
AgentTypes == {AgentA, AgentAB}

\* tool names as the engine sees them
ToolRead == <<"f", ".", "r">>
ToolWrite == <<"f", ".", "w">>
Tools == {ToolRead, ToolWrite}

\* tool names as a transport receives them
RawTools == {ToolRead, ToolWrite, <<"F", "R">>, <<"f", "_", "w">>, EmptyStr}

\* requests: no structured request, a path inside /w, a path outside /w
ReqNil == NilRequest
ReqInside == MapRequest([f \in {"path"} |-> StrVal(<<"/", "w", "/", "x">>)])
ReqOutside == MapRequest([f \in {"path"} |-> StrVal(<<"/", "e">>)])

WorkspaceOnly == [NoConstraints EXCEPT !.PathPatterns = << <<"/", "w", "/", "*", "*">> >>]

\* default Deny, f.r allowed under /w/**, f.w denied
PermsRestricted ==
    << ToolPermission(ToolRead, Allow, TRUE, WorkspaceOnly),
       ToolPermission(ToolWrite, Deny, FALSE, NoConstraints) >>
PolicyRestricted ==
    CompilePolicy("restricted", <<AgentA>>, Deny, PermsRestricted, Enforcing, EmptyStr)

\* default Allow, f.w denied
PermsOpen == << ToolPermission(ToolWrite, Deny, FALSE, NoConstraints) >>
PolicyOpen == CompilePolicy("open", <<AgentA>>, Allow, PermsOpen, Enforcing, EmptyStr)

\* default Deny, f.r allowed without constraints
PermsPlain == << ToolPermission(ToolRead, Allow, FALSE, NoConstraints) >>
PolicyPlain == CompilePolicy("plain", <<AgentA>>, Deny, PermsPlain, Enforcing, EmptyStr)

\* the same table compiled with the policy-level mode Permissive
PolicyLenient == CompilePolicy("lenient", <<AgentA>>, Deny, PermsPlain, Permissive, EmptyStr)

\* the spec of PolicyPlain for the rule-module generator, and the policy
\* compiled from the generated module
SpecPlain ==
    RegoPolicySpec("plain", "deny",
        << [Tool |-> ToolRead, Action |-> "allow", HasConstraints |-> FALSE,
            Constraints |-> NoConstraints] >>, EmptyStr, "")
PolicyPlainOPA ==
    CompilePolicyWithOPA("plain", <<AgentA>>, Deny, PermsPlain, Enforcing, EmptyStr,
                         CompileToRego(SpecPlain)).policy

\* the requests the transports receive: Server.Execute requests and
\* ToolRouter.Execute requests
ServerCalls ==
    [via : {"server"}, at : {AgentA}, raw : RawTools, req : {ReqNil},
     metaOK : {TRUE}, paramsOK : {TRUE}]
    \cup [via : {"server"}, at : {AgentA}, raw : {ToolRead}, req : {ReqNil},
          metaOK : BOOLEAN, paramsOK : BOOLEAN]
RouterCalls ==
    [via : {"router"}, at : {AgentA}, raw : {<<"F", "R">>, ToolWrite, EmptyStr},
     req : {ReqInside}, metaOK : {TRUE}, paramsOK : {TRUE}]

\* engine configurations (NewEngine options, SetToolExecutor/SetRoutingFunction)
Configs ==
    [mode : Modes, useOPA : BOOLEAN, auditOn : {TRUE}, hasExecutor : {TRUE}]
    \cup {[mode |-> Enforcing, useOPA |-> FALSE, auditOn |-> FALSE, hasExecutor |-> FALSE]}

\* the goroutines that call Evaluate / Execute
Procs == {1, 2}

(***************************************************************************)
(* State                                                                   *)
(***************************************************************************)
VARIABLES
    policies,     \* Engine.policies: agentType -> CompiledPolicy
    opaPolicies,  \* OPAEvaluator.policies: agentType -> OPAPolicy
    cache,        \* DecisionCache.entries: key -> cacheEntry
    hits,         \* DecisionCache.hits
    misses,       \* DecisionCache.misses
    mode,         \* Engine.mode
    useOPA,       \* Engine.useOPA (opaEval is non-nil exactly when it is set)
    auditOn,      \* Engine.audit # nil
    hasExecutor,  \* Server.toolExecutor / ToolRouter.routeToSandbox # nil
    audit,        \* the events the audit sink received, in order
    now,          \* the clock
    pc,           \* where each goroutine is in Evaluate
    loc,          \* the locals of each goroutine's call, and its history
    adm,          \* the goroutine that loads and removes policies
    nEvals, nOps, nModes,   \* how many calls were started
    ver,          \* history: number of writes of Engine.policies[agentType]
    quietInv,     \* history: the last invalidation that ran with no call in flight
    raced,        \* history: a policy write happened while a call was in flight
    last,         \* history: the most recent completed call
    access,       \* the labels of a dominance check and its result
    labelOps,     \* the calls of the label functions: their arguments and results
    emitter,      \* an AuditEmitter, its sinks, and the goroutines calling it
    chanSink,     \* a ChannelAuditSink: its buffer and what was read from it
    reconciler    \* AgentPolicyReconciler: the resources it watches and the
                  \* Reconcile call under way

vars == <<policies, opaPolicies, cache, hits, misses, mode, useOPA, auditOn,
          hasExecutor, audit, now, pc, loc, adm, nEvals, nOps, nModes, ver,
          quietInv, raced, last, access, labelOps, emitter, chanSink, reconciler>>

config == <<useOPA, auditOn, hasExecutor>>

\* what no operation of the engine touches
aside == <<access, labelOps, emitter, reconciler>>

EmptyMap == [k \in {} |-> 0]

\* a completed call as remembered for the next call on the same key
NoLast ==
    [valid |-> FALSE, proc |-> 0, at |-> AgentA, tool |-> EmptyStr, key |-> EmptyStr,
     req |-> ReqNil, decision |-> Deny, reason |-> "",
     ret |-> Deny, retMode |-> Permissive, exp |-> 0, hit |-> FALSE, imm |-> FALSE,
     solo |-> FALSE, touched |-> FALSE, startVer |-> 0, quiet |-> FALSE, fresh |-> FALSE]

\* the locals of a goroutine that is not in a call
IdleLoc ==
    [via |-> "none", at |-> AgentA, raw |-> EmptyStr, tool |-> EmptyStr, req |-> ReqNil,
     key |-> EmptyStr, hit |-> FALSE, polPresent |-> FALSE, pol |-> PolicyPlain,
     usedOPA |-> FALSE, decision |-> Deny, reason |-> "", exp |-> 0,
     ret |-> Deny, retMode |-> Permissive, status |-> "", code |-> "", executed |-> FALSE,
     evaluated |-> FALSE,
     startVer |-> 0, startQuiet |-> FALSE, startNoPol |-> FALSE, startHadEntry |-> FALSE,
     startNow |-> 0, resVer |-> 0, alone |-> FALSE, solo |-> FALSE, touched |-> FALSE,
     firstAfter |-> FALSE, invVer |-> 0, auditLen0 |-> 0, prev |-> NoLast,
     cancelled |-> "", opaRan |-> FALSE, opaOut |-> NoResults,
     mtsLabel |-> EmptyStr, opaModule |-> NoRegoModule, err |-> ""]

\* no label function was called; hashToCategory is some function of tenant
\* id and seed
NoInput == [kind |-> "none", str |-> EmptyStr, label |-> NilLabel]
NoLabelCalls == [input |-> NoInput, hash |-> << >>, calls |-> << >>]

\* the reconciler before any resource exists: store is the API server's map
\* from resource name to AgentPolicy spec, todo the agent types the call under
\* way still has to handle; changes counts the resource changes; before (the
\* engine's policies when the call started), opsBase (the number of policy
\* operations before it) and done (the calls that returned) are history
NoReconciler ==
    [pc |-> "idle", name |-> "", todo |-> << >>, compiled |-> NilPolicy,
     store |-> [n \in {} |-> 0], changes |-> 0, before |-> [a \in {} |-> 0],
     opsBase |-> 0, done |-> << >>]

\* no ChannelAuditSink is the engine's sink
NoChannel == [on |-> FALSE, cap |-> 0, buf |-> << >>, read |-> << >>, accepted |-> << >>,
              offered |-> 0]

\* mutant of ChannelLogReturns: a send without the default case waits for room
ChannelLogWaits(ch) == Len(ch.buf) < ch.cap

\* ChannelAuditSink.Log returns: the select has a default case, so some case
\* is always ready
ChannelLogReturns(ch) == TRUE

\* ChannelAuditSink.Log: the send when the buffer has room, else the default
\* case; accepted and offered are history
ChannelLog(ch, event) ==
    IF Len(ch.buf) < ch.cap
    THEN [ch EXCEPT !.buf = Append(@, event), !.accepted = Append(@, event),
                    !.offered = @ + 1]
    ELSE [ch EXCEPT !.offered = @ + 1]

\* the goroutines that call AuditEmitter.Log, and the recording sinks
Loggers == {1, 2}
SinkIds == {"s1", "s2"}

IdleLogger == [pc |-> "idle", call |-> 0, snapshot |-> << >>, i |-> 0]

\* NewAuditEmitter(sinks...) before any call; calls, adds and deliveries are
\* history
NewAuditEmitter(sinks) ==
    [sinks |-> sinks, totalEvents |-> 0, allowEvents |-> 0, denyEvents |-> 0,
     cachedEvents |-> 0, readers |-> {}, writer |-> FALSE,
     lg |-> [p \in Loggers |-> IdleLogger], ad |-> [pc |-> "idle", sink |-> "s1"],
     calls |-> << >>, adds |-> << >>, deliveries |-> << >>]

NoEmitter == NewAuditEmitter(<< >>)

NoAccess == [called |-> FALSE, subject |-> NilLabel, object |-> NilLabel, result |-> FALSE]

NoQuietInv == [valid |-> FALSE, at |-> AgentA, ver |-> 0]

InFlight(p) == pc[p] \notin {"idle", "done"}

EngineInit ==
    /\ policies = EmptyMap
    /\ opaPolicies = EmptyMap
    /\ cache = EmptyMap
    /\ hits = 0
    /\ misses = 0
    /\ \E c \in Configs :
          /\ mode = c.mode
          /\ useOPA = c.useOPA
          /\ auditOn = c.auditOn
          /\ hasExecutor = c.hasExecutor
    /\ audit = << >>
    /\ now = 0
    /\ pc = [p \in Procs |-> "idle"]
    /\ loc = [p \in Procs |-> IdleLoc]
    /\ adm = [pc |-> "idle", at |-> AgentA, ops |-> << >>]
    /\ nEvals = 0
    /\ nOps = 0
    /\ nModes = 0
    /\ ver = [a \in AgentTypes |-> 0]
    /\ quietInv = NoQuietInv
    /\ raced = FALSE
    /\ last = NoLast
    /\ reconciler = NoReconciler

\* no dominance check is under way
Init ==
    /\ EngineInit
    /\ access = NoAccess
    /\ labelOps = NoLabelCalls
    /\ emitter = NoEmitter
    /\ chanSink = NoChannel

(***************************************************************************)
(* History bookkeeping shared by the actions                               *)
(***************************************************************************)
\* something happened after the remembered call returned
Touch(l) == IF l.valid THEN [l EXCEPT !.imm = FALSE] ELSE l

\* a load/remove of agent type a concerns a key when its invalidation prefix
\* a + ":" is a prefix of the key
Concerns(a, key) == HasPrefix(key, a \o <<":">>)

\* the locals after goroutine p moves to l; every other call in flight has
\* been overlapped by a step of p
StepLoc(p, l) ==
    [q \in Procs |->
        IF q = p THEN l
        ELSE IF InFlight(q) THEN [loc[q] EXCEPT !.alone = FALSE]
        ELSE loc[q]]

\* the locals after a step of the policy goroutine on agent type a
AdminLoc(a) ==
    [q \in Procs |->
        IF InFlight(q)
        THEN [loc[q] EXCEPT !.alone = FALSE,
                            !.touched = @ \/ Concerns(a, loc[q].key)]
        ELSE loc[q]]

AdminLast(a) ==
    IF last.valid /\ Concerns(a, last.key)
    THEN [last EXCEPT !.imm = FALSE, !.touched = TRUE]
    ELSE Touch(last)

\* the locals after a step that is neither a call's nor a policy operation's
OtherLoc ==
    [q \in Procs |-> IF InFlight(q) THEN [loc[q] EXCEPT !.alone = FALSE] ELSE loc[q]]

(***************************************************************************)
(* Evaluate, and the transports around it                                  *)
(***************************************************************************)
\* the tool name the engine is asked about
EngineTool(call) == IF call.via = "engine" THEN call.raw ELSE extractToolName(call.raw)

\* Server.Execute's request validation
ServerInvalid(call) ==
    call.via = "server" /\ (call.raw = EmptyStr \/ ~call.metaOK \/ ~call.paramsOK)

\* a call that ends before Engine.Evaluate is reached: INVALID from the
\* server's validation, or "empty tool name" from RouterPolicyIntegration
\* mutant of RejectedLoc: the call ends with Allow and without an error
RejectedLocAllowed(call) ==
    [IdleLoc EXCEPT !.via = call.via, !.at = call.at, !.raw = call.raw, !.req = call.req,
                    !.ret = Allow]

RejectedLoc(call) ==
    [IdleLoc EXCEPT !.via = call.via, !.at = call.at, !.raw = call.raw, !.req = call.req,
                    !.status = IF ServerInvalid(call) THEN "INVALID" ELSE "",
                    !.code = IF ServerInvalid(call) THEN "OK" ELSE "Internal",
                    !.err = IF ServerInvalid(call) THEN "" ELSE "empty tool name"]

\* the start of a call up to and including the Load of cache.Get
\* AgentContext.MTSLabel of a call: empty when the caller sets none
AgentLabel(call) == IF "mtsLabel" \in DOMAIN call THEN call.mtsLabel ELSE EmptyStr

EvalStart(p, call) ==
    /\ pc[p] \in {"idle", "done"}
    /\ nEvals < MaxEvals
    /\ nEvals' = nEvals + 1
    /\ IF ServerInvalid(call) \/ EngineTool(call) = EmptyStr
       THEN /\ pc' = [pc EXCEPT ![p] = "done"]
            /\ loc' = StepLoc(p, RejectedLoc(call))
            /\ last' = Touch(last)
            /\ UNCHANGED <<hits, misses, quietInv>>
       ELSE LET tool == EngineTool(call)
                key == CacheKey(call.at, tool)
                present == key \in DOMAIN cache
                fresh == present /\ ~Expired(cache[key], now)
                l0 == [IdleLoc EXCEPT
                         !.via = call.via, !.at = call.at, !.raw = call.raw,
                         !.tool = tool, !.req = call.req, !.key = key,
                         !.mtsLabel = AgentLabel(call),
                         !.evaluated = TRUE,
                         !.startVer = ver[call.at],
                         !.startQuiet = (adm.pc = "idle" \/ adm.at # call.at),
                         !.startNoPol = (call.at \notin DOMAIN policies),
                         !.startHadEntry = present,
                         !.startNow = now,
                         !.alone = TRUE,
                         !.solo = ~\E q \in Procs \ {p} : InFlight(q) /\ loc[q].key = key,
                         !.firstAfter = (quietInv.valid /\ quietInv.at = call.at),
                         !.invVer = quietInv.ver,
                         !.auditLen0 = Len(audit),
                         !.prev = IF last.valid /\ last.key = key THEN last ELSE NoLast]
                l1 == IF fresh
                      THEN [l0 EXCEPT !.hit = TRUE,
                                      !.decision = cache[key].decision,
                                      !.reason = cache[key].reason,
                                      !.exp = cache[key].expiresAt,
                                      !.resVer = cache[key].ver]
                      ELSE l0
            IN  /\ pc' = [pc EXCEPT ![p] = IF fresh THEN "audit"
                                           ELSE IF present THEN "expire" ELSE "lookup"]
                /\ loc' = [q \in Procs |->
                             IF q = p THEN l1
                             ELSE IF InFlight(q)
                                  THEN [loc[q] EXCEPT !.alone = FALSE,
                                                      !.solo = @ /\ loc[q].key # key]
                                  ELSE loc[q]]
                /\ hits' = IF fresh THEN hits + 1 ELSE hits
                /\ misses' = IF present THEN misses ELSE misses + 1
                /\ quietInv' = NoQuietInv
                /\ last' = IF last.valid /\ last.key = key THEN NoLast ELSE Touch(last)
    /\ UNCHANGED <<policies, opaPolicies, cache, mode, config, aside, chanSink, audit, now, adm,
                   nOps, nModes, ver, raced>>

\* cache.Get found an expired entry: entries.Delete(key), recordMiss
EvalExpire(p) ==
    /\ pc[p] = "expire"
    /\ cache' = CacheDelete(cache, loc[p].key)
    /\ misses' = misses + 1
    /\ pc' = [pc EXCEPT ![p] = "lookup"]
    /\ loc' = StepLoc(p, loc[p])
    /\ last' = Touch(last)
    /\ UNCHANGED <<policies, opaPolicies, hits, mode, config, aside, chanSink, audit, now, adm,
                   nEvals, nOps, nModes, ver, quietInv, raced>>

\* mutant of EvalLookup: a policy whose MTS label is not the agent's denies
EvalLookupLabelled(p) ==
    /\ pc[p] = "lookup"
    /\ LET l == loc[p]
           exists == l.at \in DOMAIN policies
           opa == exists /\ shouldUseOPA(useOPA, policies[l.at])
           d == IF ~exists THEN DecisionOf(Deny, "no policy defined for agent type")
                ELSE IF opa THEN DecisionOf(Deny, "")
                ELSE IF l.mtsLabel # policies[l.at].MTSLabel
                     THEN DecisionOf(Deny, "MTS label mismatch")
                ELSE evaluatePolicy(policies[l.at], l.tool, l.req)
       IN  /\ loc' = StepLoc(p, [l EXCEPT !.polPresent = exists,
                                         !.pol = IF exists THEN policies[l.at] ELSE @,
                                         !.usedOPA = opa,
                                         !.decision = d.decision,
                                         !.reason = d.reason,
                                         !.resVer = ver[l.at]])
           /\ pc' = [pc EXCEPT ![p] = IF opa THEN "opa" ELSE "store"]
    /\ last' = Touch(last)
    /\ UNCHANGED <<policies, opaPolicies, cache, hits, misses, mode, config, aside, chanSink, audit,
                   now, adm, nEvals, nOps, nModes, ver, quietInv, raced>>

\* the read of e.policies under the read lock, and the table evaluation
EvalLookup(p) ==
    /\ pc[p] = "lookup"
    /\ LET l == loc[p]
           exists == l.at \in DOMAIN policies
           opa == exists /\ shouldUseOPA(useOPA, policies[l.at])
           d == IF ~exists THEN DecisionOf(Deny, "no policy defined for agent type")
                ELSE IF opa THEN DecisionOf(Deny, "")
                ELSE evaluatePolicy(policies[l.at], l.tool, l.req)
       IN  /\ loc' = StepLoc(p, [l EXCEPT !.polPresent = exists,
                                         !.pol = IF exists THEN policies[l.at] ELSE @,
                                         !.usedOPA = opa,
                                         !.decision = d.decision,
                                         !.reason = d.reason,
                                         !.resVer = ver[l.at]])
           /\ pc' = [pc EXCEPT ![p] = IF opa THEN "opa" ELSE "store"]
    /\ last' = Touch(last)
    /\ UNCHANGED <<policies, opaPolicies, cache, hits, misses, mode, config, aside, chanSink, audit,
                   now, adm, nEvals, nOps, nModes, ver, quietInv, raced>>

\* the caller cancels the context of p's call; cancelled remembers where the
\* call was when that happened
Cancel(p) ==
    /\ InFlight(p)
    /\ loc[p].cancelled = ""
    /\ loc' = StepLoc(p, [loc[p] EXCEPT !.cancelled = pc[p]])
    /\ last' = Touch(last)
    /\ UNCHANGED <<policies, opaPolicies, cache, hits, misses, mode, config, aside, chanSink, audit,
                   now, pc, adm, nEvals, nOps, nModes, ver, quietInv, raced>>

\* evaluateOPA: OPAEvaluator.Evaluate reads the evaluator's own policy map;
\* PreparedQuery.Eval(ctx, ...) on a cancelled context either notices the
\* cancellation and returns an error or completes
EvalOPA(p) ==
    /\ pc[p] = "opa"
    /\ \E failed \in BOOLEAN :
        /\ failed => (loc[p].cancelled # "" /\ loc[p].at \in DOMAIN opaPolicies)
        /\ LET l == loc[p]
               loaded == l.at \in DOMAIN opaPolicies
               out == IF failed THEN EvalOutput("context canceled", << >>)
                      ELSE IF loaded
                           THEN OPAOutput(opaPolicies, l.at, l.mtsLabel, l.tool, OPAParams(l.req))
                      ELSE NoResults
               d == IF loaded THEN OPAInterpret(out)
                    ELSE OPAEvaluate(opaPolicies, l.at, l.mtsLabel, l.tool, OPAParams(l.req))
           IN  loc' = StepLoc(p, [l EXCEPT !.decision = d.decision, !.reason = d.reason,
                                           !.opaRan = loaded, !.opaOut = out,
                                           !.opaModule = IF loaded
                                                         THEN opaPolicies[l.at].RegoModule
                                                         ELSE NoRegoModule])
    /\ pc' = [pc EXCEPT ![p] = "store"]
    /\ last' = Touch(last)
    /\ UNCHANGED <<policies, opaPolicies, cache, hits, misses, mode, config, aside, chanSink, audit,
                   now, adm, nEvals, nOps, nModes, ver, quietInv, raced>>

\* mutant of EvalStore: the cache is given the decision applyMode returns
EvalStoreApplied(p) ==
    /\ pc[p] = "store"
    /\ cache' = CacheSet(cache, loc[p].key, applyMode(mode, loc[p].decision), loc[p].reason,
                         now, loc[p].resVer)
    /\ loc' = StepLoc(p, [loc[p] EXCEPT !.exp = now + CacheTTL])
    /\ pc' = [pc EXCEPT ![p] = "audit"]
    /\ last' = Touch(last)
    /\ UNCHANGED <<policies, opaPolicies, hits, misses, mode, config, aside, chanSink, audit, now,
                   adm, nEvals, nOps, nModes, ver, quietInv, raced>>

\* e.cache.Set(cacheKey, decision, reason)
EvalStore(p) ==
    /\ pc[p] = "store"
    /\ cache' = CacheSet(cache, loc[p].key, loc[p].decision, loc[p].reason, now,
                         loc[p].resVer)
    /\ loc' = StepLoc(p, [loc[p] EXCEPT !.exp = now + CacheTTL])
    /\ pc' = [pc EXCEPT ![p] = "audit"]
    /\ last' = Touch(last)
    /\ UNCHANGED <<policies, opaPolicies, hits, misses, mode, config, aside, chanSink, audit, now,
                   adm, nEvals, nOps, nModes, ver, quietInv, raced>>

\* AuditEvent as emitAudit builds it
AuditEvent(agentType, tool, decision, reason, cached) ==
    [agentType |-> agentType, tool |-> tool, decision |-> decision,
     reason |-> reason, cached |-> cached]

\* mutant of emitAudit: every event is marked as not cached
emitAuditUncached(log, sink, agentType, tool, decision, reason, cached) ==
    IF sink THEN Append(log, AuditEvent(agentType, tool, decision, reason, FALSE))
    ELSE log

\* emitAudit
emitAudit(log, sink, agentType, tool, decision, reason, cached) ==
    IF sink THEN Append(log, AuditEvent(agentType, tool, decision, reason, cached))
    ELSE log

\* mutant of Transport: the decision is not checked before the executor runs
TransportUnchecked(via, decision, executor, ok) ==
    [status |-> IF via = "server" THEN "SUCCESS" ELSE "", code |-> "OK",
     executed |-> via # "engine" /\ executor]

\* what Server.Execute / ToolRouter.Execute do with the decision Evaluate
\* returned: Deny ends the call with PermissionDenied, Allow reaches the
\* executor when one is configured; ok is whether the executor succeeds
Transport(via, decision, executor, ok) ==
    IF via = "engine" THEN [status |-> "", code |-> "OK", executed |-> FALSE]
    ELSE IF decision = Deny
         THEN [status |-> IF via = "server" THEN "DENIED" ELSE "",
               code |-> "PermissionDenied", executed |-> FALSE]
    ELSE IF ~executor
         THEN [status |-> IF via = "server" THEN "SUCCESS" ELSE "", code |-> "OK",
               executed |-> FALSE]
    ELSE [status |-> IF via = "server" THEN (IF ok THEN "SUCCESS" ELSE "ERROR") ELSE "",
          code |-> IF via = "router" /\ ~ok THEN "Unknown" ELSE "OK",
          executed |-> TRUE]

\* emitAudit, applyMode and the return, then the transport's reaction
EvalFinish(p) ==
    /\ pc[p] = "audit"
    /\ (auditOn /\ chanSink.on) => ChannelLogReturns(chanSink)
    /\ \E ok \in BOOLEAN :
        LET l == loc[p]
            ret == applyMode(mode, l.decision)
            t == Transport(l.via, ret, hasExecutor, ok)
            l1 == [l EXCEPT !.ret = ret, !.retMode = mode, !.status = t.status,
                            !.code = t.code, !.executed = t.executed]
        IN  /\ (ok \/ t.executed)
            /\ audit' = emitAudit(audit, auditOn, l.at, l.tool, l.decision, l.reason, l.hit)
            /\ chanSink' = IF auditOn /\ chanSink.on
                           THEN ChannelLog(chanSink, AuditEvent(l.at, l.tool, l.decision,
                                                                l.reason, l.hit))
                           ELSE chanSink
            /\ loc' = StepLoc(p, l1)
            /\ last' = [valid |-> TRUE, proc |-> p, at |-> l.at, tool |-> l.tool,
                        key |-> l.key, req |-> l.req,
                        decision |-> l.decision, reason |-> l.reason, ret |-> ret,
                        retMode |-> mode, exp |-> l.exp, hit |-> l.hit, imm |-> TRUE,
                        solo |-> l.solo, touched |-> l.touched, startVer |-> l.startVer,
                        quiet |-> l.startQuiet,
                        fresh |-> l.alone /\ l.startNoPol /\ ~l.startHadEntry]
    /\ pc' = [pc EXCEPT ![p] = "done"]
    /\ UNCHANGED <<policies, opaPolicies, cache, hits, misses, mode, config, aside, now, adm,
                   nEvals, nOps, nModes, ver, quietInv, raced>>

(***************************************************************************)
(* Policy operations                                                       *)
(***************************************************************************)
SomeInFlight == \E p \in Procs : InFlight(p)

\* one entry of the history of LoadPolicy and RemovePolicy calls
PolicyOp(op, agentType, policy) == [op |-> op, at |-> agentType, policy |-> policy]

\* e.policies[agentType] = policy that also forgets the other agent types
MapStoreOnly(pols, agentType, policy) ==
    [a \in {agentType} |-> policy]

\* e.policies[agentType] = policy
MapStore(pols, agentType, policy) ==
    [a \in DOMAIN pols \cup {agentType} |-> IF a = agentType THEN policy ELSE pols[a]]

\* Engine.GetPolicy: policy, ok := e.policies[agentType] under the read lock
GetPolicy(pols, agentType) ==
    IF agentType \in DOMAIN pols
    THEN [ok |-> TRUE, policy |-> pols[agentType]]
    ELSE [ok |-> FALSE, policy |-> NilPolicy]

\* Engine.ListPolicies: the keys of e.policies under the read lock, in the
\* order the map iteration yields them (any order, hence a set)
ListPolicies(pols) == DOMAIN pols

\* Engine.LoadPolicy up to the release of the write lock: the engine's part
LoadPolicyLocked(agentType, policy) ==
    /\ adm.pc = "idle"
    /\ policies' = MapStore(policies, agentType, policy)
    /\ ver' = [ver EXCEPT ![agentType] = @ + 1]
    /\ adm' = [pc |-> "inv", at |-> agentType,
               ops |-> Append(adm.ops, PolicyOp("load", agentType, policy))]
    /\ raced' = (raced \/ SomeInFlight)
    /\ loc' = AdminLoc(agentType)
    /\ last' = AdminLast(agentType)
    /\ UNCHANGED <<opaPolicies, cache, hits, misses, mode, config, chanSink, audit, now, pc,
                   nEvals, nModes, quietInv>>

\* Engine.LoadPolicy called directly, up to the release of the write lock
LoadPolicy(agentType, policy) ==
    /\ nOps < MaxPolicyOps
    /\ nOps' = nOps + 1
    /\ LoadPolicyLocked(agentType, policy)
    /\ UNCHANGED aside

\* Engine.RemovePolicy up to the release of the write lock: the engine's part
RemovePolicyLocked(agentType) ==
    /\ adm.pc = "idle"
    /\ policies' = [a \in DOMAIN policies \ {agentType} |-> policies[a]]
    /\ ver' = [ver EXCEPT ![agentType] = @ + 1]
    /\ adm' = [pc |-> "inv", at |-> agentType,
               ops |-> Append(adm.ops, PolicyOp("remove", agentType, NilPolicy))]
    /\ raced' = (raced \/ SomeInFlight)
    /\ loc' = AdminLoc(agentType)
    /\ last' = AdminLast(agentType)
    /\ UNCHANGED <<opaPolicies, cache, hits, misses, mode, config, chanSink, audit, now, pc,
                   nEvals, nModes, quietInv>>

\* Engine.RemovePolicy called directly, up to the release of the write lock
RemovePolicy(agentType) ==
    /\ nOps < MaxPolicyOps
    /\ nOps' = nOps + 1
    /\ RemovePolicyLocked(agentType)
    /\ UNCHANGED aside

\* OPAEvaluator.LoadPolicy (through Engine.OPAEvaluator()) for one agent type,
\* up to the release of the evaluator's write lock
OPALoadPolicy(agentType, name, regoModule) ==
    /\ adm.pc = "idle"
    /\ useOPA
    /\ regoModule.accepted
    /\ nOps < MaxPolicyOps
    /\ nOps' = nOps + 1
    /\ opaPolicies' = [a \in DOMAIN opaPolicies \cup {agentType} |->
                          IF a = agentType
                          THEN OPAPolicy(name, <<agentType>>, regoModule, EmptyStr, Enforcing)
                          ELSE opaPolicies[a]]
    /\ adm' = [pc |-> "inv", at |-> agentType, ops |-> adm.ops]
    /\ raced' = (raced \/ SomeInFlight)
    /\ loc' = AdminLoc(agentType)
    /\ last' = AdminLast(agentType)
    /\ UNCHANGED <<policies, cache, hits, misses, mode, config, aside, chanSink, audit, now, pc,
                   nEvals, nModes, ver, quietInv>>

\* the cache.InvalidatePrefix(agentType + ":") that ends each policy operation
InvalidateStep ==
    /\ adm.pc = "inv"
    /\ cache' = InvalidatePrefix(cache, adm.at \o <<":">>)
    /\ adm' = [adm EXCEPT !.pc = "idle"]
    /\ quietInv' = IF SomeInFlight THEN NoQuietInv
                   ELSE [valid |-> TRUE, at |-> adm.at, ver |-> ver[adm.at]]
    /\ loc' = AdminLoc(adm.at)
    /\ last' = AdminLast(adm.at)
    /\ UNCHANGED <<policies, opaPolicies, hits, misses, mode, config, aside, chanSink, audit, now, pc,
                   nEvals, nOps, nModes, ver, raced>>

\* Engine.SetMode
SetMode(m) ==
    /\ nModes < MaxModeSets
    /\ nModes' = nModes + 1
    /\ mode' = m
    /\ loc' = OtherLoc
    /\ last' = Touch(last)
    /\ UNCHANGED <<policies, opaPolicies, cache, hits, misses, config, aside, chanSink, audit, now, pc,
                   adm, nEvals, nOps, ver, quietInv, raced>>

\* time passes
Tick ==
    /\ now < MaxTime
    /\ now' = now + 1
    /\ loc' = OtherLoc
    /\ last' = Touch(last)
    /\ UNCHANGED <<policies, opaPolicies, cache, hits, misses, mode, config, aside, chanSink, audit, pc,
                   adm, nEvals, nOps, nModes, ver, quietInv, raced>>

(***************************************************************************)
(* Specifications.  The actions are the same in all of them; they differ   *)
(* in which clients run and which inputs the clients and the operator use. *)
(***************************************************************************)
TablePolicies == {PolicyRestricted, PolicyOpen, PolicyPlain}

\* no call and no policy operation is in flight
Quiescent == adm.pc = "idle" /\ ~SomeInFlight

\* the calls of the sequential client
SeqCalls ==
    [via : {"engine"}, at : {AgentA}, raw : {ToolRead}, req : {ReqInside, ReqOutside},
     metaOK : {TRUE}, paramsOK : {TRUE}]
    \cup [via : {"engine"}, at : {AgentA}, raw : {ToolWrite}, req : {ReqNil},
          metaOK : {TRUE}, paramsOK : {TRUE}]
    \cup [via : {"engine"}, at : {AgentAB}, raw : {ToolRead}, req : {ReqNil},
          metaOK : {TRUE}, paramsOK : {TRUE}]

\* an engine without OPA
InitTable == Init /\ ~useOPA

\* Sequential use of the engine's API: each call of Evaluate, LoadPolicy,
\* RemovePolicy or SetMode starts when the one before it has returned
Next ==
    \/ \E call \in SeqCalls : Quiescent /\ EvalStart(1, call)
    \/ EvalExpire(1)
    \/ EvalLookup(1)
    \/ EvalStore(1)
    \/ EvalFinish(1)
    \/ \E pol \in TablePolicies : Quiescent /\ LoadPolicy(AgentA, pol)
    \/ Quiescent /\ RemovePolicy(AgentA)
    \/ InvalidateStep
    \/ \E m \in Modes : Quiescent /\ SetMode(m)
    \/ Quiescent /\ Tick

Spec == InitTable /\ [][Next]_vars

\* the calls of the concurrent clients: one key
ConcCalls ==
    [via : {"engine"}, at : {AgentA}, raw : {ToolRead}, req : {ReqOutside},
     metaOK : {TRUE}, paramsOK : {TRUE}]

\* an Enforcing engine without OPA, with an audit sink
InitConc == Init /\ ~useOPA /\ auditOn /\ mode = Enforcing

\* Concurrent use: two goroutines call Evaluate while a third loads and
\* removes policies; every step of one may fall between two steps of another
NextConc ==
    \/ \E p \in Procs, call \in ConcCalls : EvalStart(p, call)
    \/ \E p \in Procs : EvalLookup(p)
    \/ \E p \in Procs : EvalStore(p)
    \/ \E p \in Procs : EvalFinish(p)
    \/ \E pol \in {PolicyPlain, PolicyRestricted} : LoadPolicy(AgentA, pol)
    \/ RemovePolicy(AgentA)
    \/ InvalidateStep

SpecConc == InitConc /\ [][NextConc]_vars

\* an engine with OPA enabled
InitOPA == Init /\ useOPA /\ mode = Enforcing

OPACalls ==
    [via : {"engine"}, at : {AgentA}, raw : Tools, req : {ReqNil, ReqInside},
     metaOK : {TRUE}, paramsOK : {TRUE}]

\* Sequential use of an engine created with WithOPA(true): policies compiled
\* with and without a rule module are loaded with Engine.LoadPolicy; the
\* evaluator's own LoadPolicy is reachable through Engine.OPAEvaluator()
NextOPA ==
    \/ \E call \in OPACalls : Quiescent /\ EvalStart(1, call)
    \/ EvalLookup(1)
    \/ EvalOPA(1)
    \/ EvalStore(1)
    \/ EvalFinish(1)
    \/ \E pol \in {PolicyPlain, PolicyPlainOPA} : Quiescent /\ LoadPolicy(AgentA, pol)
    \/ Quiescent /\ RemovePolicy(AgentA)
    \/ Quiescent /\ OPALoadPolicy(AgentA, "plain", CompileToRego(SpecPlain))
    \/ InvalidateStep

SpecOPA == InitOPA /\ [][NextOPA]_vars

\* the requests the transports receive
TransportCalls == ServerCalls \cup RouterCalls

\* Sequential requests to Server.Execute and ToolRouter.Execute
NextTransport ==
    \/ \E call \in TransportCalls : Quiescent /\ EvalStart(1, call)
    \/ EvalLookup(1)
    \/ EvalStore(1)
    \/ EvalFinish(1)
    \/ \E pol \in TablePolicies : Quiescent /\ LoadPolicy(AgentA, pol)
    \/ Quiescent /\ RemovePolicy(AgentA)
    \/ InvalidateStep
    \/ \E m \in Modes : Quiescent /\ SetMode(m)

SpecTransport == InitTable /\ [][NextTransport]_vars

(***************************************************************************)
(* Constraint checking through the engine: one policy with constraints is  *)
(* loaded, then sequential calls with requests that carry, omit or         *)
(* mistype the fields the constraints read                                 *)
(***************************************************************************)
ToolFetch == <<"n", ".", "f">>

\* allowed ports 80 and 443
PortsOnly == [NoConstraints EXCEPT !.AllowedPorts = <<80, 443>>]
\* allowed domains "*.e.c" and "a.x.y" (TestEngineDomainConstraints)
DomainsOnly ==
    [NoConstraints EXCEPT !.AllowedDomains =
        << <<"*", ".", "e", ".", "c">>, <<"a", ".", "x", ".", "y">> >>]
\* allowed domains "*"
AnyDomain == [NoConstraints EXCEPT !.AllowedDomains = << <<"*">> >>]
\* allowed "*.e.c", denied "b.e.c" and "*.v.c"
DomainsBoth ==
    [NoConstraints EXCEPT !.AllowedDomains = << <<"*", ".", "e", ".", "c">> >>,
                          !.DeniedDomains = << <<"b", ".", "e", ".", "c">>,
                                               <<"*", ".", "v", ".", "c">> >>]
\* path patterns "/w/**" and "/t/*" (TestEnginePathConstraints)
PathsOnly ==
    [NoConstraints EXCEPT !.PathPatterns =
        << <<"/", "w", "/", "*", "*">>, <<"/", "t", "/", "*">> >>]
\* paths, domains and a size limit together
PathDomainSize ==
    [NoConstraints EXCEPT !.PathPatterns = << <<"/", "w", "/", "*", "*">> >>,
                          !.AllowedDomains = << <<"*", ".", "e", ".", "c">> >>,
                          !.MaxSizeBytes = 2]

ConstraintSets == {PortsOnly, DomainsOnly, AnyDomain, DomainsBoth, PathsOnly, PathDomainSize}

\* default Deny, f.r and n.f allowed under the given constraints
ConstrainedPolicy(c) ==
    CompilePolicy("constrained", <<AgentA>>, Deny,
                  << ToolPermission(ToolRead, Allow, TRUE, c),
                     ToolPermission(ToolFetch, Allow, TRUE, c) >>,
                  Enforcing, EmptyStr)

ConstraintPolicies == {ConstrainedPolicy(c) : c \in ConstraintSets}

PathRequest(path) == MapRequest([f \in {"path"} |-> StrVal(path)])
DomainRequest(domain) == MapRequest([f \in {"domain"} |-> StrVal(domain)])
PortRequest(port) == MapRequest([f \in {"port"} |-> Int64Val(port)])
SizeRequest(size) == MapRequest([f \in {"size"} |-> size])
EmptyRequest == MapRequest([f \in {} |-> StrVal(EmptyStr)])

Paths ==
    { <<"/", "w", "/", "x">>, <<"/", "w", "/", "a", "/", "b">>, <<"/", "w">>,
      <<"/", "t", "/", "f">>, <<"/", "t", "/", "a", "/", "b">>, <<"/", "e">> }
Domains ==
    { <<"a", ".", "e", ".", "c">>, <<"b", ".", "e", ".", "c">>, <<"a", ".", "x", ".", "y">>,
      <<"e", ".", "c">>, <<"v", ".", "c">>, <<"e", ".", "c", ".", "v", ".", "c">>,
      <<".", "e", ".", "c">> }
Ports == {80, 443, 22}

\* requests of file calls and of network calls
ReadRequests ==
    {PathRequest(x) : x \in Paths}
    \cup {NilRequest, EmptyRequest, SizeRequest(Int64Val(1)), SizeRequest(Int64Val(3)),
          MapRequest([f \in {"path"} |-> Int64Val(1)])}
FetchRequests ==
    {DomainRequest(d) : d \in Domains}
    \cup {PortRequest(n) : n \in Ports}
    \cup {NilRequest, EmptyRequest}

ConstraintCalls ==
    [via : {"engine"}, at : {AgentA}, raw : {ToolRead}, req : ReadRequests,
     metaOK : {TRUE}, paramsOK : {TRUE}]
    \cup [via : {"engine"}, at : {AgentA}, raw : {ToolFetch}, req : FetchRequests,
          metaOK : {TRUE}, paramsOK : {TRUE}]

NextConstraints ==
    \/ \E call \in ConstraintCalls : Quiescent /\ EvalStart(1, call)
    \/ EvalLookup(1)
    \/ EvalStore(1)
    \/ EvalFinish(1)
    \/ \E pol \in ConstraintPolicies : Quiescent /\ nOps = 0 /\ LoadPolicy(AgentA, pol)
    \/ InvalidateStep

SpecConstraints == InitConc /\ [][NextConstraints]_vars

(***************************************************************************)
(* Cancellation: the engine of SpecOPA, whose callers may cancel the       *)
(* context of a call in flight                                             *)
(***************************************************************************)
NextCancel ==
    \/ \E call \in OPACalls : Quiescent /\ EvalStart(1, call)
    \/ Cancel(1)
    \/ EvalLookup(1)
    \/ EvalOPA(1)
    \/ EvalStore(1)
    \/ EvalFinish(1)
    \/ \E pol \in {PolicyPlain, PolicyPlainOPA} : Quiescent /\ LoadPolicy(AgentA, pol)
    \/ Quiescent /\ OPALoadPolicy(AgentA, "plain", CompileToRego(SpecPlain))
    \/ InvalidateStep

SpecCancel == InitOPA /\ [][NextCancel]_vars

(***************************************************************************)
(* Compilation: policies compiled from permission lists with well-formed   *)
(* and ill-formed tool names are loaded and evaluated                      *)
(***************************************************************************)
LowerChars ==
    {"a", "b", "c", "d", "e", "f", "g", "h", "i", "j", "k", "l", "m",
     "n", "o", "p", "q", "r", "s", "t", "u", "v", "w", "x", "y", "z"}
DigitChars == {"0", "1", "2", "3", "4", "5", "6", "7", "8", "9"}

\* the pattern on ToolPermission.Tool: ^[a-z][a-z0-9]*(\.[a-z][a-z0-9]*)*$
ValidToolName(s) ==
    /\ Len(s) > 0
    /\ s[Len(s)] # "."
    /\ \A i \in 1..Len(s) :
          /\ s[i] \in LowerChars \cup DigitChars \cup {"."}
          /\ (i = 1 \/ s[i - 1] = ".") => s[i] \in LowerChars

\* tool names handed to the compiler
CompileTools ==
    {ToolRead, <<"f", "2", ".", "r">>, <<"F", "R">>, <<"f", "_", "w">>, <<"f", " ", "r">>,
     <<"1", "f">>, <<"f", ".">>, <<"f", ".", ".", "r">>, EmptyStr}

\* CompilePolicy / CompilePolicyWithOPA on a one-permission list: the set of
\* policies the call can return (none when CompilePolicyWithOPA fails)
CompiledFrom(tool, action, withOPA) ==
    LET perms == << ToolPermission(tool, action, FALSE, NoConstraints) >>
        module == CompileToRego(RegoPolicySpec("compiled", "deny",
                      << [Tool |-> tool,
                          Action |-> IF action = Allow THEN "allow" ELSE "deny",
                          HasConstraints |-> FALSE, Constraints |-> NoConstraints] >>,
                      EmptyStr, ""))
        r == CompilePolicyWithOPA("compiled", <<AgentA>>, Deny, perms, Enforcing,
                                  EmptyStr, module)
    IN  IF withOPA
        THEN (IF r.ok THEN {r.policy} ELSE {})
        ELSE {CompilePolicy("compiled", <<AgentA>>, Deny, perms, Enforcing, EmptyStr)}

CompileCalls ==
    [via : {"engine"}, at : {AgentA}, raw : CompileTools \ {EmptyStr}, req : {ReqNil},
     metaOK : {TRUE}, paramsOK : {TRUE}]

NextCompile ==
    \/ \E call \in CompileCalls : Quiescent /\ EvalStart(1, call)
    \/ EvalLookup(1)
    \/ EvalStore(1)
    \/ EvalFinish(1)
    \/ \E tool \in CompileTools, action \in Decisions, withOPA \in BOOLEAN :
          \E pol \in CompiledFrom(tool, action, withOPA) :
             Quiescent /\ LoadPolicy(AgentA, pol)
    \/ InvalidateStep

SpecCompile == InitConc /\ [][NextCompile]_vars

(***************************************************************************)
(* Interpretation of the OPA result: hand-written modules whose query      *)
(* evaluates to every shape of result are loaded into the evaluator        *)
(***************************************************************************)
\* how a field of the decision object is given
FieldChoices == {"absent", "true", "false"}

\* the decision object with the given allow, deny, mts and reason fields;
\* mts may also be a string, reason is a string or absent
DecisionObject(allow, deny, mts, reason) ==
    LET given == [f \in {"allow", "deny", "mts", "reason"} |->
                    CASE f = "allow" -> allow [] f = "deny" -> deny
                      [] f = "mts" -> mts [] f = "reason" -> reason]
    IN  OPAObject([f \in {g \in DOMAIN given : given[g] # "absent"} |->
                     CASE given[f] = "true" -> OPABool(TRUE)
                       [] given[f] = "false" -> OPABool(FALSE)
                       [] OTHER -> OPAString(given[f])])

DecisionObjects ==
    {DecisionObject(a, d, m, r) :
        a \in FieldChoices, d \in FieldChoices, m \in FieldChoices \cup {"no"},
        r \in {"absent", "because"}}

\* what the backend can hand back: an error, no result, a result without
\* expressions, a boolean, a string, a decision object
LiteralOutputs ==
    {EvalOutput("eval_conflict_error", << >>), NoResults,
     EvalOutput("", << RegoResult(<< >>) >>)}
    \cup {EvalOutput("", << RegoResult(<< OPAScalar(v) >>) >>) :
             v \in {OPABool(TRUE), OPABool(FALSE), OPAString("allow")}}
    \cup {EvalOutput("", << RegoResult(<< v >>) >>) : v \in DecisionObjects}

ExtractCalls ==
    [via : {"engine"}, at : {AgentA}, raw : {ToolRead}, req : {ReqNil},
     metaOK : {TRUE}, paramsOK : {TRUE}]

NextExtract ==
    \/ \E call \in ExtractCalls : Quiescent /\ EvalStart(1, call)
    \/ EvalLookup(1)
    \/ EvalOPA(1)
    \/ EvalStore(1)
    \/ EvalFinish(1)
    \/ Quiescent /\ LoadPolicy(AgentA, PolicyPlainOPA)
    \/ \E out \in LiteralOutputs :
          Quiescent /\ OPALoadPolicy(AgentA, "literal", LiteralModule(out))
    \/ InvalidateStep

SpecExtract == InitOPA /\ [][NextExtract]_vars

(***************************************************************************)
(* Tenant labels: modules generated from specs with an MTS label and an    *)
(* enforce mode, evaluated for agents with and without a label             *)
(***************************************************************************)
LabelC1 == <<"s", "0", ":", "c", "1">>
LabelC2 == <<"s", "0", ":", "c", "2">>

\* tenantIsolation.enforceMode values; empty means the default
EnforceModes == {"", "strict", "permissive", "disabled"}

\* the spec of PolicyPlain with a tenant label and an enforce mode
SpecMTS(mtsLabel, mtsEnforceMode) ==
    RegoPolicySpec("plain", "deny",
        << [Tool |-> ToolRead, Action |-> "allow", HasConstraints |-> FALSE,
            Constraints |-> NoConstraints] >>, mtsLabel, mtsEnforceMode)

MTSCalls ==
    [via : {"engine"}, at : {AgentA}, raw : Tools, req : {ReqNil},
     metaOK : {TRUE}, paramsOK : {TRUE}, mtsLabel : {EmptyStr, LabelC1, LabelC2}]

NextMTS ==
    \/ \E call \in MTSCalls : Quiescent /\ EvalStart(1, call)
    \/ EvalLookup(1)
    \/ EvalOPA(1)
    \/ EvalStore(1)
    \/ EvalFinish(1)
    \/ Quiescent /\ LoadPolicy(AgentA, PolicyPlainOPA)
    \/ \E l \in {EmptyStr, LabelC1}, m \in EnforceModes :
          Quiescent /\ OPALoadPolicy(AgentA, "plain", CompileToRego(SpecMTS(l, m)))
    \/ InvalidateStep

SpecTenant == InitOPA /\ [][NextMTS]_vars

(***************************************************************************)
(* Label dominance: CanAccess applied to labels drawn from bounded sets    *)
(***************************************************************************)
\* category lists as a caller can build them: any order, repetitions allowed
CategoryLists ==
    UNION {[1..n -> 0..MaxCategory] : n \in 0..MaxCategories}

Labels ==
    {NilLabel} \cup {MTSLabel(s, c) : s \in 0..MaxSensitivity, c \in CategoryLists}

InitAccess ==
    /\ EngineInit /\ ~useOPA /\ auditOn /\ hasExecutor /\ mode = Enforcing
    /\ \E s \in Labels, o \in Labels :
          access = [NoAccess EXCEPT !.subject = s, !.object = o]
    /\ labelOps = NoLabelCalls
    /\ emitter = NoEmitter
    /\ chanSink = NoChannel

\* subject.CanAccess(object)
CanAccessCall ==
    /\ ~access.called
    /\ access' = [access EXCEPT !.called = TRUE,
                                !.result = CanAccess(access.subject, access.object)]
    /\ UNCHANGED <<policies, opaPolicies, cache, hits, misses, mode, config, audit, now,
                   pc, loc, adm, nEvals, nOps, nModes, ver, quietInv, raced, last, labelOps,
                   emitter, chanSink, reconciler>>

NextAccess == CanAccessCall

SpecAccess == InitAccess /\ [][NextAccess]_vars

(***************************************************************************)
(* Label text: ParseMTSLabel, String and GenerateMTSLabel called on labels *)
(* and texts drawn from bounded sets, each result fed to the next call     *)
(***************************************************************************)
\* texts before the colon: plain, padded, signed, malformed
SensTexts ==
    {<<"s", "0">>,
     <<"s", "1">>,
     <<"s", "1", "2">>,
     <<"s", "0", "1">>,
     <<"s", "+", "1">>,
     <<"s", "-", "0">>,
     <<"s", "-", "1">>,
     <<"s">>,
     <<"s", "x">>,
     <<"0">>,
     <<"S", "0">>,
     <<"s", " ", "0">>}

\* texts of one category: in range, out of range, padded, signed, malformed
CatTexts ==
    {<<"c", "0">>,
     <<"c", "1">>,
     <<"c", "2">>,
     <<"c", "3">>,
     <<"c", "1", "0">>,
     <<"c", "0", "1">>,
     <<"c", "+", "2">>,
     <<"c", "-", "1">>,
     <<"c", "-", "0">>,
     <<" ", "c", "1">>,
     <<"c", "1", " ">>,
     <<"c">>,
     <<"1">>,
     <<"x", "1">>,
     << >>}

PlainCatTexts == {<<"c", "0">>, <<"c", "1">>, <<"c", "2">>}

\* category texts joined with commas: up to two of any kind, or three plain
CatListTexts ==
    {<< >>} \cup CatTexts
    \cup {a \o <<",">> \o b : a \in CatTexts, b \in CatTexts}
    \cup {a \o <<",">> \o b \o <<",">> \o c :
             a \in PlainCatTexts, b \in PlainCatTexts, c \in PlainCatTexts}

LabelAlphabet == {"s", "c", "0", "1", "3", ":", ",", "-", "+", " "}

\* the texts handed to ParseMTSLabel: built from the parts above, bare or
\* surrounded by blanks, and every text of up to three characters
LabelTexts ==
    LET built == SensTexts \cup {a \o <<":">> \o b : a \in SensTexts, b \in CatListTexts}
    IN  built \cup {<<" ">> \o t \o <<"\t">> : t \in built}
              \cup UNION {[1..n -> LabelAlphabet] : n \in 0..3}

\* strictly ascending category lists within 0..MaxCategory
SortedCategoryLists ==
    {c \in CategoryLists : \A i \in 1..(Len(c) - 1) : c[i] < c[i + 1]}

\* valid labels: sensitivity of one or two digits, sorted distinct categories
ValidLabels ==
    {MTSLabel(n, c) : n \in 0..MaxSensitivity \cup {12}, c \in SortedCategoryLists}

TenantIDs == {<<"t", "1">>, <<"t", "2">>}

\* hashToCategory as a function of tenant id and seed: any values in range
HashFunctions == [TenantIDs -> [{0, 1} -> 0..MaxCategory]]

InitLabels ==
    /\ EngineInit /\ ~useOPA /\ auditOn /\ hasExecutor /\ mode = Enforcing
    /\ access = NoAccess
    /\ emitter = NoEmitter
    /\ chanSink = NoChannel
    /\ \/ \E t \in LabelTexts :
             labelOps = [NoLabelCalls EXCEPT !.input = [NoInput EXCEPT !.kind = "text", !.str = t]]
       \/ \E l \in ValidLabels :
             labelOps = [NoLabelCalls EXCEPT !.input = [NoInput EXCEPT !.kind = "label", !.label = l]]
       \/ \E id \in TenantIDs \cup {EmptyStr}, h \in HashFunctions :
             labelOps = [NoLabelCalls EXCEPT
                            !.input = [NoInput EXCEPT !.kind = "tenant", !.str = id],
                            !.hash = h]

LastCall == labelOps.calls[Len(labelOps.calls)]

LabelCall(op, arg, res) ==
    /\ Len(labelOps.calls) < MaxLabelCalls
    /\ labelOps' = [labelOps EXCEPT !.calls = Append(@, [op |-> op, arg |-> arg, res |-> res])]
    /\ UNCHANGED <<policies, opaPolicies, cache, hits, misses, mode, config, audit, now,
                   pc, loc, adm, nEvals, nOps, nModes, ver, quietInv, raced, last, access,
                   emitter, chanSink, reconciler>>

\* ParseMTSLabel on the input text or on the text String returned
ParseCall ==
    \/ /\ labelOps.calls = << >> /\ labelOps.input.kind = "text"
       /\ LabelCall("Parse", labelOps.input.str, ParseMTSLabel(labelOps.input.str))
    \/ /\ labelOps.calls # << >> /\ LastCall.op = "String"
       /\ LabelCall("Parse", LastCall.res, ParseMTSLabel(LastCall.res))

\* String on the input label or on the label ParseMTSLabel returned
StringCall ==
    \/ /\ labelOps.calls = << >> /\ labelOps.input.kind = "label"
       /\ LabelCall("String", labelOps.input.label, String(labelOps.input.label))
    \/ /\ labelOps.calls # << >> /\ LastCall.op = "Parse" /\ LastCall.res.ok
       /\ LabelCall("String", LastCall.res.label, String(LastCall.res.label))

\* GenerateMTSLabel on the input tenant id
GenerateCall ==
    /\ labelOps.input.kind = "tenant"
    /\ LabelCall("Generate", labelOps.input.str,
                 GenerateMTSLabel(labelOps.hash, labelOps.input.str))

NextLabels == ParseCall \/ StringCall \/ GenerateCall

SpecLabels == InitLabels /\ [][NextLabels]_vars

(***************************************************************************)
(* AuditEmitter: goroutines call Log while another calls AddSink           *)
(***************************************************************************)
\* the events handed to Log
LogEvents == [decision : Decisions, cached : BOOLEAN]

InitEmitter ==
    /\ EngineInit /\ ~useOPA /\ auditOn /\ hasExecutor /\ mode = Enforcing
    /\ access = NoAccess
    /\ labelOps = NoLabelCalls
    /\ chanSink = NoChannel
    /\ \E sinks \in {<< >>, <<"s1">>} : emitter = NewAuditEmitter(sinks)

EngineUnchanged ==
    UNCHANGED <<policies, opaPolicies, cache, hits, misses, mode, config, audit, now,
                pc, loc, adm, nEvals, nOps, nModes, ver, quietInv, raced, last, access,
                labelOps, chanSink, reconciler>>

\* mutant of StatsUpdate: a cached event is not counted as allow or deny
StatsUpdateCachedApart(em, event) ==
    [em EXCEPT !.totalEvents = @ + 1,
               !.allowEvents = IF event.decision = Allow /\ ~event.cached THEN @ + 1 ELSE @,
               !.denyEvents = IF event.decision # Allow /\ ~event.cached THEN @ + 1 ELSE @,
               !.cachedEvents = IF event.cached THEN @ + 1 ELSE @]

\* AuditEmitter.Log: the counters, under statsMu
StatsUpdate(em, event) ==
    [em EXCEPT !.totalEvents = @ + 1,
               !.allowEvents = IF event.decision = Allow THEN @ + 1 ELSE @,
               !.denyEvents = IF event.decision = Allow THEN @ ELSE @ + 1,
               !.cachedEvents = IF event.cached THEN @ + 1 ELSE @]

\* Log is called and updates the counters; the call remembers which sinks
\* were registered when it was made
LogStats(p, event) ==
    /\ emitter.lg[p].pc = "idle"
    /\ Len(emitter.calls) < MaxLogs
    /\ LET k == Len(emitter.calls) + 1
           em == StatsUpdate(emitter, event)
       IN  emitter' = [em EXCEPT
               !.lg[p] = [IdleLogger EXCEPT !.pc = "rlock", !.call = k],
               !.calls = Append(@, [event |-> event, registered |-> emitter.sinks,
                                    snapshot |-> << >>, returned |-> FALSE])]
    /\ EngineUnchanged

\* e.mu.RLock(); the range clause reads e.sinks once
LogRLock(p) ==
    /\ emitter.lg[p].pc = "rlock"
    /\ ~emitter.writer
    /\ emitter' = [emitter EXCEPT
           !.readers = @ \cup {p},
           !.lg[p] = [@ EXCEPT !.pc = "range", !.snapshot = emitter.sinks, !.i = 1],
           !.calls[emitter.lg[p].call] = [@ EXCEPT !.snapshot = emitter.sinks]]
    /\ EngineUnchanged

\* one iteration of the loop: sink.Log(event)
LogDeliver(p) ==
    /\ emitter.lg[p].pc = "range"
    /\ emitter.lg[p].i <= Len(emitter.lg[p].snapshot)
    /\ emitter' = [emitter EXCEPT
           !.deliveries = Append(@, [sink |-> emitter.lg[p].snapshot[emitter.lg[p].i],
                                     call |-> emitter.lg[p].call]),
           !.lg[p] = [@ EXCEPT !.i = @ + 1]]
    /\ EngineUnchanged

\* the loop ends, the deferred RUnlock runs, Log returns
LogReturn(p) ==
    /\ emitter.lg[p].pc = "range"
    /\ emitter.lg[p].i > Len(emitter.lg[p].snapshot)
    /\ emitter' = [emitter EXCEPT
           !.readers = @ \ {p},
           !.lg[p] = IdleLogger,
           !.calls[emitter.lg[p].call] = [@ EXCEPT !.returned = TRUE]]
    /\ EngineUnchanged

\* AddSink: e.mu.Lock()
AddSinkLock(sink) ==
    /\ emitter.ad.pc = "idle"
    /\ Len(emitter.adds) < MaxAdds
    /\ emitter.readers = {} /\ ~emitter.writer
    /\ emitter' = [emitter EXCEPT !.writer = TRUE, !.ad = [pc |-> "locked", sink |-> sink]]
    /\ EngineUnchanged

\* AddSink: the append, e.mu.Unlock(), return; the add remembers how many
\* Log calls had been made
AddSinkAppend ==
    /\ emitter.ad.pc = "locked"
    /\ emitter' = [emitter EXCEPT
           !.sinks = Append(@, emitter.ad.sink),
           !.writer = FALSE,
           !.ad = [@ EXCEPT !.pc = "idle"],
           !.adds = Append(@, [sink |-> emitter.ad.sink, callsBefore |-> Len(emitter.calls)])]
    /\ EngineUnchanged

NextEmitter ==
    \/ \E p \in Loggers, event \in LogEvents : LogStats(p, event)
    \/ \E p \in Loggers : LogRLock(p)
    \/ \E p \in Loggers : LogDeliver(p)
    \/ \E p \in Loggers : LogReturn(p)
    \/ \E sink \in SinkIds : AddSinkLock(sink)
    \/ AddSinkAppend

SpecEmitter == InitEmitter /\ [][NextEmitter]_vars

(***************************************************************************)
(* An engine whose audit sink is a ChannelAuditSink; a consumer may read   *)
(* the channel                                                             *)
(***************************************************************************)
InitChannel ==
    /\ EngineInit /\ ~useOPA /\ auditOn /\ hasExecutor /\ mode = Enforcing
    /\ access = NoAccess
    /\ labelOps = NoLabelCalls
    /\ emitter = NoEmitter
    /\ \E n \in 1..MaxBuffer : chanSink = [NoChannel EXCEPT !.on = TRUE, !.cap = n]

\* a receive from Events()
ChannelRead ==
    /\ chanSink.buf # << >>
    /\ chanSink' = [chanSink EXCEPT !.buf = Tail(@), !.read = Append(@, Head(chanSink.buf))]
    /\ UNCHANGED <<policies, opaPolicies, cache, hits, misses, mode, config, aside, audit,
                   now, pc, loc, adm, nEvals, nOps, nModes, ver, quietInv, raced, last>>

NextChannel ==
    \/ \E p \in Procs, call \in SeqCalls : EvalStart(p, call)
    \/ \E p \in Procs : EvalLookup(p)
    \/ \E p \in Procs : EvalStore(p)
    \/ \E p \in Procs : EvalFinish(p)
    \/ Quiescent /\ LoadPolicy(AgentA, PolicyRestricted)
    \/ InvalidateStep
    \/ ChannelRead

SpecChannel == InitChannel /\ [][NextChannel]_vars

\* every goroutine in Evaluate keeps running; nothing obliges the consumer
\* to read
SpecChannelLive ==
    /\ SpecChannel
    /\ \A p \in Procs : WF_vars(EvalLookup(p) \/ EvalStore(p) \/ EvalFinish(p))

(***************************************************************************)
(* Properties                                                              *)
(***************************************************************************)
\* goroutine p's call reached Engine.Evaluate and has returned
Done(p) == pc[p] = "done" /\ loc[p].evaluated

\* p's call has returned and nothing has happened since
JustDone(p) == Done(p) /\ last.valid /\ last.imm /\ last.proc = p

\* the sink received the audit event of p's call after the call started
Audited(p, cached) ==
    \E i \in (loc[p].auditLen0 + 1)..Len(audit) :
        audit[i] = AuditEvent(loc[p].at, loc[p].tool, loc[p].decision, loc[p].reason,
                              cached)

\* the sink received exactly one event since p's call started: the call's
AuditedOnce(p, cached) ==
    /\ Len(audit) = loc[p].auditLen0 + 1
    /\ Audited(p, cached)

\* C1: in Enforcing mode a call that starts while no policy is loaded for
\* its agent type (no load or remove in flight, none until it returns)
\* returns Deny, also when another call that read the old policy was in
\* flight during the remove.
C1_NoPolicyReturnsDeny ==
    \A p \in Procs :
        (/\ Done(p)
         /\ loc[p].startNoPol
         /\ loc[p].startQuiet
         /\ ver[loc[p].at] = loc[p].startVer
         /\ loc[p].retMode = Enforcing)
        => loc[p].ret = Deny

\* C2: a call that starts after LoadPolicy(at, P2) has returned (no policy
\* operation on at in flight, none until the call returns) and whose result
\* was computed from a loaded policy yields the decision of P2, the policy
\* loaded now, never a different one computed from an earlier policy.
C2_PublicationOrder ==
    \A p \in Procs :
        (/\ Done(p)
         /\ loc[p].at \in DOMAIN policies
         /\ loc[p].startQuiet
         /\ ver[loc[p].at] = loc[p].startVer
         /\ loc[p].reason # "no policy defined for agent type")
        => loc[p].decision =
              evaluatePolicy(policies[loc[p].at], loc[p].tool, loc[p].req).decision

\* C3: after a LoadPolicy or RemovePolicy of agent type at that ran with no
\* call in flight has returned, no cache key begins with at + ":", and the
\* next call for at is computed from the policy state the operation left (or
\* a later one), is a cache miss and is audited with cached = false.
C3_CacheInvalidation ==
    /\ quietInv.valid =>
          \A k \in DOMAIN cache : ~HasPrefix(k, quietInv.at \o <<":">>)
    /\ \A p \in Procs :
          (Done(p) /\ loc[p].firstAfter)
          => /\ ~loc[p].hit
             /\ loc[p].resVer >= loc[p].invVer
             /\ auditOn => Audited(p, FALSE)

\* C3 witness: a call allowed under the first policy, then a second policy
\* loaded, then the same call is recomputed and denied in Enforcing mode
C3_Witness ==
    \E p \in Procs :
        /\ JustDone(p)
        /\ loc[p].firstAfter
        /\ loc[p].prev.valid
        /\ loc[p].prev.decision = Allow
        /\ loc[p].decision = Deny
        /\ loc[p].retMode = Enforcing
        /\ loc[p].ret = Deny
        /\ auditOn

\* C4: with a policy that allows the tool under path patterns loaded and
\* unchanged, in Enforcing mode a call whose path matches no pattern
\* returns Deny with reason "constraint violation", whatever calls came
\* before it.
C4_PathViolationDenied ==
    \A p \in Procs :
        (/\ Done(p)
         /\ ~raced
         /\ loc[p].startQuiet
         /\ ver[loc[p].at] = loc[p].startVer
         /\ loc[p].at \in DOMAIN policies
         /\ loc[p].tool \in DOMAIN policies[loc[p].at].ToolTable
         /\ LET perm == policies[loc[p].at].ToolTable[loc[p].tool]
            IN  /\ perm.Action = Allow
                /\ perm.HasConstraints
                /\ Len(perm.Constraints.PathPatterns) > 0
                /\ IsStringParam(loc[p].req, "path")
                /\ ~PathOK(perm.Constraints, loc[p].req)
         /\ loc[p].retMode = Enforcing)
        => /\ loc[p].ret = Deny
           /\ loc[p].reason = "constraint violation"

\* the decision that goes with each reason of the table path and of the
\* no-policy path
ReasonDecision(reason) ==
    IF reason \in {"tool explicitly allowed by policy", "allowed by default policy"}
    THEN Allow ELSE Deny

\* C5: in Permissive mode every call returns Allow, in Enforcing mode the
\* underlying decision; the cache entries and the audit events carry the
\* underlying decision (the one that goes with their reason), and the audit
\* event of a call carries the call's underlying decision.
C5_ModeMapping ==
    /\ \A p \in Procs :
          Done(p) => /\ loc[p].retMode = Permissive => loc[p].ret = Allow
                     /\ loc[p].retMode = Enforcing => loc[p].ret = loc[p].decision
                     /\ auditOn => Audited(p, loc[p].hit)
    /\ \A k \in DOMAIN cache : cache[k].decision = ReasonDecision(cache[k].reason)
    /\ \A i \in 1..Len(audit) : audit[i].decision = ReasonDecision(audit[i].reason)

\* C5 witness: a cache hit on a Deny entry in Permissive mode returns Allow
\* while the entry and the audit event say Deny
C5_Witness ==
    \E p \in Procs :
        /\ JustDone(p)
        /\ loc[p].hit
        /\ loc[p].retMode = Permissive
        /\ loc[p].decision = Deny
        /\ loc[p].ret = Allow
        /\ auditOn
        /\ audit[Len(audit)].decision = Deny
        /\ loc[p].key \in DOMAIN cache
        /\ cache[loc[p].key].decision = Deny

\* C6: on a cache miss with a policy found and the table path used, the
\* decision and reason are: explicit Deny entry -> Deny "tool explicitly
\* denied by policy"; explicit Allow entry with no failing constraint ->
\* Allow "tool explicitly allowed by policy"; no entry -> the default action
\* with "allowed by default policy" / "denied by default policy".
C6_TableDecision ==
    \A p \in Procs :
        (/\ pc[p] \in {"store", "audit", "done"}
         /\ loc[p].evaluated
         /\ ~loc[p].hit
         /\ loc[p].polPresent
         /\ ~loc[p].usedOPA)
        => LET l == loc[p]
               table == l.pol.ToolTable
               listed == l.tool \in DOMAIN table
               is(d, r) == l.decision = d /\ l.reason = r
           IN  /\ (listed /\ table[l.tool].Action = Deny)
                     => is(Deny, "tool explicitly denied by policy")
               /\ (/\ listed
                   /\ table[l.tool].Action = Allow
                   /\ (~table[l.tool].HasConstraints
                       \/ checkConstraints(table[l.tool].Constraints, l.tool, l.req)))
                     => is(Allow, "tool explicitly allowed by policy")
               /\ (~listed /\ l.pol.DefaultAction = Allow)
                     => is(Allow, "allowed by default policy")
               /\ (~listed /\ l.pol.DefaultAction = Deny)
                     => is(Deny, "denied by default policy")

\* C6 witness: an explicit Deny entry under default Allow
C6_Witness ==
    \E p \in Procs :
        /\ Done(p)
        /\ ~loc[p].hit
        /\ loc[p].polPresent
        /\ loc[p].pol.DefaultAction = Allow
        /\ loc[p].tool \in DOMAIN loc[p].pol.ToolTable
        /\ loc[p].decision = Deny
        /\ loc[p].reason = "tool explicitly denied by policy"

\* C7: a call for an agent type with no policy and no cache entry for its
\* key, overlapped by nothing, yields Deny "no policy defined for agent
\* type", leaves that decision in the cache and emits one audit event with
\* cached = false; an identical call that follows immediately yields the
\* same decision and reason and emits one audit event with cached = true.
C7_NoPolicyThenCached ==
    \A p \in Procs :
        /\ (JustDone(p) /\ loc[p].alone /\ loc[p].startNoPol /\ ~loc[p].startHadEntry)
           => /\ loc[p].decision = Deny
              /\ loc[p].reason = "no policy defined for agent type"
              /\ ~loc[p].hit
              /\ loc[p].key \in DOMAIN cache
              /\ cache[loc[p].key].decision = Deny
              /\ cache[loc[p].key].reason = "no policy defined for agent type"
              /\ auditOn => AuditedOnce(p, FALSE)
        /\ (/\ JustDone(p)
            /\ loc[p].alone
            /\ loc[p].prev.valid
            /\ loc[p].prev.imm
            /\ loc[p].prev.fresh
            /\ loc[p].prev.req = loc[p].req)
           => /\ loc[p].decision = loc[p].prev.decision
              /\ loc[p].reason = loc[p].prev.reason
              /\ loc[p].hit
              /\ auditOn => AuditedOnce(p, TRUE)

\* C7 witness: the second of two identical calls for an agent type with no
\* policy has just returned from the cache
C7_Witness ==
    \E p \in Procs :
        /\ JustDone(p)
        /\ loc[p].alone
        /\ loc[p].prev.valid
        /\ loc[p].prev.imm
        /\ loc[p].prev.fresh
        /\ loc[p].prev.req = loc[p].req
        /\ loc[p].hit
        /\ loc[p].reason = "no policy defined for agent type"
        /\ auditOn
        /\ Len(audit) = 2

C10_CompleteMediation ==
    \A p \in Procs :
        (pc[p] = "done" /\ loc[p].via \in {"server", "router"})
        => /\ loc[p].executed => (loc[p].evaluated /\ loc[p].ret = Allow)
           /\ (loc[p].evaluated /\ loc[p].ret = Deny)
                 => (loc[p].code = "PermissionDenied" /\ ~loc[p].executed)

\* C10 witness: a request of an unknown agent type denied by the server in
\* Enforcing mode
C10_Witness ==
    \E p \in Procs :
        /\ Done(p)
        /\ loc[p].via = "server"
        /\ ~loc[p].polPresent
        /\ loc[p].retMode = Enforcing
        /\ loc[p].ret = Deny
        /\ loc[p].code = "PermissionDenied"
        /\ ~loc[p].executed
        /\ hasExecutor

\* a cache miss decided by the table path
TableMiss(p) ==
    /\ Done(p)
    /\ ~loc[p].hit
    /\ loc[p].polPresent
    /\ ~loc[p].usedOPA

\* the constraints of the allow permission p's call was decided under, and
\* whether there is one
ConstrainedAllow(p) ==
    /\ TableMiss(p)
    /\ loc[p].tool \in DOMAIN loc[p].pol.ToolTable
    /\ loc[p].pol.ToolTable[loc[p].tool].Action = Allow
    /\ loc[p].pol.ToolTable[loc[p].tool].HasConstraints
ConstraintsOf(p) == loc[p].pol.ToolTable[loc[p].tool].Constraints

\* a member of a list
InList(x, list) == \E i \in 1..Len(list) : list[i] = x

\* C11: for an allow permission with a non-empty AllowedPorts list, a cache
\* miss in the table path whose request carries a port outside the list is
\* decided Deny with reason "constraint violation".
C11_PortConstraint ==
    \A p \in Procs :
        (/\ ConstrainedAllow(p)
         /\ Len(ConstraintsOf(p).AllowedPorts) > 0
         /\ "port" \in loc[p].req.fields
         /\ ~InList(loc[p].req.params["port"].num, ConstraintsOf(p).AllowedPorts))
        => /\ loc[p].decision = Deny
           /\ loc[p].reason = "constraint violation"

\* C12: for an allow permission with allowed and denied domains, a request
\* whose domain matches an allowed pattern and also a denied pattern is
\* decided Deny: the denied list overrides the allowed list.
C12_DeniedDomainPrecedence ==
    \A p \in Procs :
        (/\ ConstrainedAllow(p)
         /\ IsStringParam(loc[p].req, "domain")
         /\ \E i \in 1..Len(ConstraintsOf(p).AllowedDomains) :
               matchDomain(ConstraintsOf(p).AllowedDomains[i], loc[p].req.params["domain"].str)
         /\ \E i \in 1..Len(ConstraintsOf(p).DeniedDomains) :
               matchDomain(ConstraintsOf(p).DeniedDomains[i], loc[p].req.params["domain"].str))
        => /\ loc[p].decision = Deny
           /\ loc[p].reason = "constraint violation"

\* C12 witness: b.e.c, allowed by "*.e.c" and denied by "b.e.c", is denied
C12_Witness ==
    \E p \in Procs :
        /\ ConstrainedAllow(p)
        /\ ConstraintsOf(p) = DomainsBoth
        /\ loc[p].req = DomainRequest(<<"b", ".", "e", ".", "c">>)
        /\ loc[p].decision = Deny

\* the domain matching the specification describes: "*" matches all, "*.x.y"
\* a domain made of at least one character followed by ".x.y", any other
\* pattern the identical string
DomainMatches(pattern, d) ==
    IF pattern = <<"*">> THEN TRUE
    ELSE IF HasPrefix(pattern, <<"*", ".">>)
         THEN \E k \in 1..Len(d) : SubSeq(d, k + 1, Len(d)) = Tail(pattern)
    ELSE d = pattern

\* C13: with only an allowed-domains list binding, a cache miss in the
\* table path is decided Allow exactly when some pattern matches the domain
\* ("*" all, "*.x.y" a strict sub-domain, a literal the identical string),
\* and Deny "constraint violation" otherwise.
C13_DomainMatching ==
    \A p \in Procs :
        (/\ ConstrainedAllow(p)
         /\ Len(ConstraintsOf(p).AllowedDomains) > 0
         /\ Len(ConstraintsOf(p).DeniedDomains) = 0
         /\ loc[p].req.isMap
         /\ loc[p].req.fields = {"domain"}
         /\ IsStringParam(loc[p].req, "domain"))
        => IF \E i \in 1..Len(ConstraintsOf(p).AllowedDomains) :
                 DomainMatches(ConstraintsOf(p).AllowedDomains[i],
                               loc[p].req.params["domain"].str)
           THEN loc[p].decision = Allow
           ELSE loc[p].decision = Deny /\ loc[p].reason = "constraint violation"

\* C13 witness: ".e.c", the bare suffix of "*.e.c", is denied
C13_Witness ==
    \E p \in Procs :
        /\ ConstrainedAllow(p)
        /\ ConstraintsOf(p) = DomainsOnly
        /\ loc[p].req = DomainRequest(<<".", "e", ".", "c">>)
        /\ loc[p].decision = Deny

\* the path matching the specification describes: "D/**" matches D and
\* every path below D, any other pattern by glob on the whole path
PathMatches(pattern, path) ==
    IF HasSuffix(pattern, <<"/", "*", "*">>)
    THEN LET D == SubSeq(pattern, 1, Len(pattern) - 3)
         IN  path = D \/ HasPrefix(path, D \o <<"/">>)
    ELSE FilepathMatch(pattern, path)

\* C14: with only a path-pattern list binding, a cache miss in the table
\* path is decided Allow exactly when some pattern matches the path ("D/**"
\* matches D itself and everything below it, other patterns match by glob
\* with "*" not crossing "/"), and Deny "constraint violation" otherwise.
C14_PathGlob ==
    \A p \in Procs :
        (/\ ConstrainedAllow(p)
         /\ Len(ConstraintsOf(p).PathPatterns) > 0
         /\ loc[p].req.isMap
         /\ loc[p].req.fields = {"path"}
         /\ IsStringParam(loc[p].req, "path"))
        => IF \E i \in 1..Len(ConstraintsOf(p).PathPatterns) :
                 PathMatches(ConstraintsOf(p).PathPatterns[i], loc[p].req.params["path"].str)
           THEN loc[p].decision = Allow
           ELSE loc[p].decision = Deny /\ loc[p].reason = "constraint violation"

\* C15: for an allow permission with constraints, a cache miss in the table
\* path is decided Allow when the request is absent or carries none of the
\* fields path, domain and size, and a "constraint violation" only comes
\* from a constraint whose field the request carries.
C15_MissingFieldNonBinding ==
    \A p \in Procs :
        ConstrainedAllow(p) =>
            LET c == ConstraintsOf(p)
                fields == IF loc[p].req.isMap THEN loc[p].req.fields ELSE {}
            IN  /\ fields \cap {"path", "domain", "size"} = {}
                      => /\ loc[p].decision = Allow
                         /\ loc[p].reason = "tool explicitly allowed by policy"
                /\ loc[p].decision = Deny
                      => \/ "path" \in fields /\ Len(c.PathPatterns) > 0
                         \/ "domain" \in fields
                               /\ Len(c.AllowedDomains) + Len(c.DeniedDomains) > 0
                         \/ "size" \in fields /\ c.MaxSizeBytes > 0

\* C15 witness: an empty request under path, domain and size constraints is
\* allowed
C15_Witness ==
    \E p \in Procs :
        /\ ConstrainedAllow(p)
        /\ ConstraintsOf(p) = PathDomainSize
        /\ loc[p].req = EmptyRequest
        /\ loc[p].decision = Allow

\* C16: a call whose context is cancelled after the cache lookup missed
\* and before the policy is evaluated yields Deny with reason "evaluation
\* cancelled" and writes no cache entry for its key.
C16_Cancellation ==
    \A p \in Procs :
        (/\ Done(p)
         /\ loc[p].cancelled \in {"lookup", "opa"}
         /\ ~loc[p].startHadEntry)
        => /\ loc[p].decision = Deny
           /\ loc[p].reason = "evaluation cancelled"
           /\ loc[p].ret = Deny
           /\ loc[p].key \notin DOMAIN cache

\* C17: no policy loaded into the engine has a tool-table key that fails
\* the tool-name pattern ^[a-z][a-z0-9]*(\.[a-z][a-z0-9]*)*$, because
\* CompilePolicy and CompilePolicyWithOPA fail on such a name.
C17_ValidToolNames ==
    \A at \in DOMAIN policies :
        \A tool \in DOMAIN policies[at].ToolTable : ValidToolName(tool)

\* a cache miss on which PreparedQuery.Eval ran
OPAMiss(p) == Done(p) /\ ~loc[p].hit /\ loc[p].usedOPA /\ loc[p].opaRan

\* C18: the OPA result is interpreted fail-closed: an error gives Deny "OPA
\* evaluation error: <err>"; no result, no expression or a value that is
\* neither boolean nor object gives Deny; a boolean b gives Allow iff b; an
\* object gives Deny "MTS violation: <r>" when mts is false, else Deny <r>
\* when deny is true, else Allow when allow is true, else Deny "denied by
\* default: <r>", so Allow iff allow is true, deny not true, mts not false.
C18_FailClosed ==
    \A p \in Procs :
        OPAMiss(p) =>
            LET out == loc[p].opaOut
                d == loc[p].decision
                r == loc[p].reason
            IN  IF out.err # ""
                THEN d = Deny /\ r = "OPA evaluation error: " \o out.err
                ELSE IF out.results = << >> THEN d = Deny
                ELSE IF out.results[1].Expressions = << >> THEN d = Deny
                ELSE LET v == out.results[1].Expressions[1].Value
                         is(f, b) == f \in DOMAIN v.fields /\ v.fields[f] = OPABool(b)
                         rr == IF "reason" \in DOMAIN v.fields
                                   /\ v.fields["reason"].kind = "string"
                               THEN v.fields["reason"].str ELSE "policy decision"
                     IN  IF v.kind = "bool" THEN d = Allow <=> v.b
                         ELSE IF v.kind # "object" THEN d = Deny
                         ELSE /\ d = Allow <=> (/\ is("allow", TRUE)
                                                /\ ~is("deny", TRUE)
                                                /\ ~is("mts", FALSE))
                              /\ is("mts", FALSE) => r = "MTS violation: " \o rr
                              /\ (~is("mts", FALSE) /\ is("deny", TRUE)) => r = rr
                              /\ d = Allow => r = rr
                              /\ (/\ ~is("mts", FALSE)
                                  /\ ~is("deny", TRUE)
                                  /\ ~is("allow", TRUE)) => r = "denied by default: " \o rr

\* C18 witness: an object with allow and deny both true is decided Deny with
\* the object's reason
C18_Witness ==
    \E p \in Procs :
        /\ OPAMiss(p)
        /\ loc[p].opaOut =
              EvalOutput("", << RegoResult(<< DecisionObject("true", "true", "absent",
                                                              "because") >>) >>)
        /\ loc[p].decision = Deny
        /\ loc[p].reason = "because"

SortedUnique(cats) == \A i \in 1..(Len(cats) - 1) : cats[i] < cats[i + 1]

\* the categories of a list as a set
CategorySet(cats) == {cats[i] : i \in 1..Len(cats)}

\* C20: subject.CanAccess(object) is true when either label is nil; for
\* labels whose categories are sorted and duplicate-free it is true iff the
\* subject's sensitivity is at least the object's and the object's
\* categories are a subset of the subject's.
C20_Dominance ==
    access.called =>
        IF access.subject.nil \/ access.object.nil THEN access.result
        ELSE (/\ SortedUnique(access.subject.Categories)
              /\ SortedUnique(access.object.Categories))
             => (access.result <=>
                    /\ access.subject.Sensitivity >= access.object.Sensitivity
                    /\ CategorySet(access.object.Categories)
                          \subseteq CategorySet(access.subject.Categories))

\* C20 witness: a subject with categories 0,1,2 at sensitivity 1 was granted
\* access to an object with categories 0,2 at sensitivity 0
C20_Witness ==
    /\ access.called
    /\ access.subject = MTSLabel(1, <<0, 1, 2>>)
    /\ access.object = MTSLabel(0, <<0, 2>>)
    /\ access.result

\* the calls made so far on the label functions
Calls == labelOps.calls

\* how many times ch occurs in a text
RECURSIVE Count(_, _)
Count(str, ch) ==
    IF str = << >> THEN 0
    ELSE (IF Head(str) = ch THEN 1 ELSE 0) + Count(Tail(str), ch)

\* C21: for a valid label l, ParseMTSLabel(l.String()) succeeds and Equals l;
\* for a text s that ParseMTSLabel accepts, ParseMTSLabel(s).String() is
\* canonical (no whitespace, one category text per distinct category, the
\* categories ascending), re-parsing it gives an Equal label, and formatting
\* that label gives the same text again.
C21_RoundTrip ==
    /\ (labelOps.input.kind = "label" /\ Len(Calls) >= 2)
          => /\ Calls[2].res.ok
             /\ Equals(Calls[2].res.label, labelOps.input.label)
    /\ (labelOps.input.kind = "text" /\ Len(Calls) >= 2)
          => LET l == Calls[1].res.label
                 o == Calls[2].res
             IN  /\ \A i \in 1..Len(o) : o[i] \notin WhiteSpace
                 /\ SortedUnique(l.Categories)
                 /\ Count(o, "c") = Len(l.Categories)
                 /\ Len(Calls) >= 3 => Calls[3].res.ok /\ Equals(Calls[3].res.label, l)
                 /\ Len(Calls) >= 4 => Calls[4].res = o

\* C21 witness: a padded text with a leading zero, a sign and unordered
\* categories was parsed, formatted, parsed and formatted again
C21_Witness ==
    /\ labelOps.input.kind = "text"
    /\ labelOps.input.str =
          <<" ", "s", "0", "1", ":", "c", "+", "2", ",", " ", "c", "1", "\t">>
    /\ Len(Calls) = 4
    /\ Calls[4].res = <<"s", "1", ":", "c", "1", ",", "c", "2">>

\* the part of a trimmed text before the first colon, and the category texts
\* after it
SensPart(str) == SplitN2(TrimSpace(str), ":")[1]
CatParts(str) ==
    LET parts == SplitN2(TrimSpace(str), ":")
    IN  IF Len(parts) = 2 /\ parts[2] # << >>
        THEN LET toks == Split(parts[2], ",")
             IN  {TrimSpace(toks[i]) : i \in 1..Len(toks)}
        ELSE {}

\* a text of decimal digits
AllDigits(str) == str # << >> /\ \A i \in 1..Len(str) : IsDigit(str[i])

\* C22: a label ParseMTSLabel returns without error has sensitivity >= 0 and
\* strictly ascending categories within 0..MaxCategory, the empty text giving
\* sensitivity 0 and no categories; a text with no 's' in front, a negative
\* sensitivity, a category without 'c' in front or a category above
\* MaxCategory gives an error and no label.
C22_ParsedLabels ==
    \A i \in 1..Len(Calls) :
        Calls[i].op = "Parse" =>
            LET t == Calls[i].arg
                r == Calls[i].res
                noS == t # << >> /\ ~HasPrefix(TrimSpace(t), <<"s">>)
                negative == /\ HasPrefix(SensPart(t), <<"s", "-">>)
                            /\ AllDigits(SubSeq(SensPart(t), 3, Len(SensPart(t))))
                            /\ DigitsValue(SubSeq(SensPart(t), 3, Len(SensPart(t)))) > 0
                noC == t # << >> /\ \E c \in CatParts(t) : ~HasPrefix(c, <<"c">>)
                tooBig == t # << >> /\ \E c \in CatParts(t) :
                              /\ HasPrefix(c, <<"c">>)
                              /\ AllDigits(Tail(c))
                              /\ DigitsValue(Tail(c)) > MaxCategory
            IN  /\ r.ok => /\ ~r.label.nil
                           /\ r.label.Sensitivity >= 0
                           /\ SortedUnique(r.label.Categories)
                           /\ \A k \in 1..Len(r.label.Categories) :
                                 r.label.Categories[k] \in 0..MaxCategory
                /\ t = << >> => r.ok /\ r.label = MTSLabel(0, << >>)
                /\ (noS \/ negative \/ noC \/ tooBig) => ~r.ok /\ r.err # "" /\ r.label.nil

\* C22 witness: a text with a repeated category out of order was parsed into
\* the label with categories 0,2
C22_Witness ==
    /\ Len(Calls) >= 1
    /\ Calls[1].op = "Parse"
    /\ Calls[1].arg = <<"s", "0", ":", "c", "2", ",", "c", "0", ",", "c", "2">>
    /\ Calls[1].res = ParseOK(MTSLabel(0, <<0, 2>>))

\* C23: GenerateMTSLabel gives Equal labels for the same tenant id; for the
\* empty id sensitivity 0 and no categories; for a non-empty id, whatever the
\* two hash values, sensitivity 0 and exactly two distinct categories within
\* 0..MaxCategory in ascending order.
C23_Generation ==
    \A i \in 1..Len(Calls) :
        Calls[i].op = "Generate" =>
            LET l == Calls[i].res
            IN  /\ \A j \in 1..Len(Calls) : Equals(Calls[j].res, l)
                /\ ~l.nil /\ l.Sensitivity = 0
                /\ Calls[i].arg = << >> => l.Categories = << >>
                /\ Calls[i].arg # << >> =>
                      /\ Len(l.Categories) = 2
                      /\ l.Categories[1] < l.Categories[2]
                      /\ l.Categories[1] \in 0..MaxCategory
                      /\ l.Categories[2] \in 0..MaxCategory

\* C23 witness: both hash values are MaxCategory, the second wraps to 0, and
\* the label was generated twice
C23_Witness ==
    /\ Len(Calls) = 2
    /\ Calls[2].op = "Generate"
    /\ Calls[2].arg # << >>
    /\ labelOps.hash[Calls[2].arg][0] = MaxCategory
    /\ labelOps.hash[Calls[2].arg][1] = MaxCategory
    /\ Calls[2].res = MTSLabel(0, <<0, MaxCategory>>)

\* C24: with an audit sink, a call of Evaluate has emitted exactly one event
\* when it returns, carrying its agent type, tool, underlying decision and
\* reason, with cached true iff the decision came from the cache; the k-th of
\* sequential calls leaves its event as the k-th in the sink.  Without a sink
\* nothing is emitted.
C24_AuditPerEvaluation ==
    /\ ~auditOn => audit = << >>
    /\ auditOn =>
          \A p \in Procs :
              JustDone(p) =>
                  /\ Len(audit) = loc[p].auditLen0 + 1
                  /\ audit[Len(audit)] =
                        AuditEvent(loc[p].at, loc[p].tool, loc[p].decision, loc[p].reason,
                                   loc[p].hit)
                  /\ Len(audit) = nEvals

\* C24 witness: in Permissive mode the second call was served from the cache,
\* returned Allow, and its event carries Deny and cached = true
C24_Witness ==
    \E p \in Procs :
        /\ JustDone(p)
        /\ auditOn
        /\ loc[p].hit
        /\ loc[p].decision = Deny
        /\ loc[p].ret = Allow
        /\ Len(audit) = 2
        /\ audit[2].cached /\ audit[2].decision = Deny
        /\ ~audit[1].cached

\* the sinks that received the event of Log call k, in the order of delivery
DeliveredTo(k) ==
    LET OfCall(d) == d.call = k
        ds == SelectSeq(emitter.deliveries, OfCall)
    IN  [i \in 1..Len(ds) |-> ds[i].sink]

IsPrefix(a, b) == Len(a) <= Len(b) /\ SubSeq(b, 1, Len(a)) = a

\* C25: total = allow + deny = number of Log calls, cached = number of logged
\* events with cached = true; a Log call that has returned delivered its
\* event once per registration, in registration order, to the sinks
\* registered when it read the list, which include those registered when it
\* was called; so a sink whose AddSink returned before the call receives it.
C25_EmitterFanOut ==
    /\ emitter.totalEvents = Len(emitter.calls)
    /\ emitter.totalEvents = emitter.allowEvents + emitter.denyEvents
    /\ emitter.allowEvents =
          Cardinality({k \in 1..Len(emitter.calls) : emitter.calls[k].event.decision = Allow})
    /\ emitter.cachedEvents =
          Cardinality({k \in 1..Len(emitter.calls) : emitter.calls[k].event.cached})
    /\ \A k \in 1..Len(emitter.calls) :
          emitter.calls[k].returned =>
              /\ DeliveredTo(k) = emitter.calls[k].snapshot
              /\ IsPrefix(emitter.calls[k].registered, DeliveredTo(k))
              /\ IsPrefix(DeliveredTo(k), emitter.sinks)
              /\ \A j \in 1..Len(emitter.adds) :
                    emitter.adds[j].callsBefore < k =>
                        \E i \in 1..Len(DeliveredTo(k)) :
                            DeliveredTo(k)[i] = emitter.adds[j].sink

\* C25 witness: two Log calls have returned; the second was called with one
\* sink registered, AddSink returned before it read the list, and it
\* delivered to both sinks in registration order
C25_Witness ==
    /\ Len(emitter.calls) = 2
    /\ emitter.calls[1].returned /\ emitter.calls[2].returned
    /\ emitter.calls[2].registered = <<"s1">>
    /\ DeliveredTo(2) = <<"s1", "s2">>
    /\ DeliveredTo(1) = <<"s1">>
    /\ emitter.totalEvents = 2 /\ emitter.cachedEvents = 1

\* C26: ChannelAuditSink.Log never waits: with room the event is appended,
\* with a full buffer it is dropped and the buffer is unchanged; the buffer
\* never exceeds its capacity and is read in the order of the appends; and a
\* call of Evaluate in flight returns even if nobody reads the channel.
C26_AuditBackPressure ==
    /\ [](Len(chanSink.buf) <= chanSink.cap)
    /\ [](chanSink.read \o chanSink.buf = chanSink.accepted)
    /\ [][chanSink'.offered # chanSink.offered =>
             /\ Len(audit') = Len(audit) + 1
             /\ chanSink'.buf = IF Len(chanSink.buf) < chanSink.cap
                                THEN Append(chanSink.buf, audit'[Len(audit')])
                                ELSE chanSink.buf]_vars
    /\ \A p \in Procs : InFlight(p) ~> pc[p] = "done"

\* C26 witness: with capacity 1 and no reader two calls have returned; the
\* first event is in the buffer and the second was dropped
C26_Witness ==
    /\ chanSink.on /\ chanSink.cap = 1
    /\ chanSink.offered = 2
    /\ chanSink.read = << >>
    /\ chanSink.buf = << audit[1] >>
    /\ \A p \in Procs : Done(p)

(***************************************************************************)
(* Policy lifecycle: LoadPolicy, RemovePolicy, GetPolicy, ListPolicies     *)
(***************************************************************************)
\* Two goroutines call Evaluate for one agent type while a third loads and
\* removes the policies of both agent types
NextLifecycle ==
    \/ \E p \in Procs, call \in ConcCalls : EvalStart(p, call)
    \/ \E p \in Procs : EvalLookup(p)
    \/ \E p \in Procs : EvalStore(p)
    \/ \E p \in Procs : EvalFinish(p)
    \/ \E a \in AgentTypes, pol \in {PolicyPlain, PolicyRestricted} : LoadPolicy(a, pol)
    \/ \E a \in AgentTypes : RemovePolicy(a)
    \/ InvalidateStep

SpecLifecycle == InitConc /\ [][NextLifecycle]_vars

\* the LoadPolicy and RemovePolicy calls on one agent type, in order
RECURSIVE OpsOn(_, _)
OpsOn(ops, a) ==
    IF ops = << >> THEN << >>
    ELSE IF Head(ops).at = a THEN <<Head(ops)>> \o OpsOn(Tail(ops), a)
    ELSE OpsOn(Tail(ops), a)

\* what GetPolicy has to answer after a call of LoadPolicy or RemovePolicy
Outcome(o) ==
    IF o.op = "load" THEN [ok |-> TRUE, policy |-> o.policy]
    ELSE [ok |-> FALSE, policy |-> NilPolicy]

\* the successive answers for one agent type: absent, then one per call
Lifecycle(a) ==
    <<[ok |-> FALSE, policy |-> NilPolicy]>>
        \o [i \in 1..Len(OpsOn(adm.ops, a)) |-> Outcome(OpsOn(adm.ops, a)[i])]

\* the goroutine has read e.policies in this call of Evaluate
HasRead(p) == loc[p].evaluated /\ ~loc[p].hit /\ pc[p] \in {"opa", "store", "audit", "done"}

\* what the goroutine read from e.policies
ReadPolicy(p) ==
    IF loc[p].polPresent THEN [ok |-> TRUE, policy |-> loc[p].pol]
    ELSE [ok |-> FALSE, policy |-> NilPolicy]

\* C27: for every agent type GetPolicy answers with the policy of the last
\* LoadPolicy call on that agent type, or absent when that last call was
\* RemovePolicy or there was none (so calls on another agent type change
\* nothing), ListPolicies holds exactly the agent types whose answer is
\* present, and a goroutine evaluating while policies are loaded has read one
\* of the answers the agent type had between the start of its call and now
C27_PolicyLifecycle ==
    /\ \A a \in AgentTypes :
          /\ Len(Lifecycle(a)) = ver[a] + 1
          /\ GetPolicy(policies, a) = Lifecycle(a)[ver[a] + 1]
          /\ a \in ListPolicies(policies) <=> GetPolicy(policies, a).ok
    /\ ListPolicies(policies) \subseteq AgentTypes
    /\ \A p \in Procs :
          HasRead(p) =>
              \E j \in (loc[p].startVer + 1)..(ver[loc[p].at] + 1) :
                  ReadPolicy(p) = Lifecycle(loc[p].at)[j]

\* a policy was loaded for one agent type and then one for the other, and a
\* goroutine that started before the first load has read the loaded policy
C27_Witness ==
    /\ Len(adm.ops) = 2
    /\ adm.ops[1].op = "load" /\ adm.ops[1].at = AgentA
    /\ adm.ops[2].op = "load" /\ adm.ops[2].at = AgentAB
    /\ GetPolicy(policies, AgentA) = [ok |-> TRUE, policy |-> adm.ops[1].policy]
    /\ \E p \in Procs :
          /\ HasRead(p)
          /\ loc[p].startVer = 0
          /\ ReadPolicy(p).ok

(***************************************************************************)
(* Policy-level mode and engine-wide mode                                  *)
(***************************************************************************)
\* Sequential use of an engine whose policies carry either policy-level mode
NextPolicyMode ==
    \/ \E call \in SeqCalls : Quiescent /\ EvalStart(1, call)
    \/ EvalExpire(1)
    \/ EvalLookup(1)
    \/ EvalStore(1)
    \/ EvalFinish(1)
    \/ \E pol \in {PolicyPlain, PolicyLenient} : Quiescent /\ LoadPolicy(AgentA, pol)
    \/ Quiescent /\ RemovePolicy(AgentA)
    \/ InvalidateStep
    \/ \E m \in Modes : Quiescent /\ SetMode(m)
    \/ Quiescent /\ Tick

SpecPolicyMode == InitTable /\ [][NextPolicyMode]_vars

\* the call returned after evaluating a loaded policy that denied it
DeniedByPolicy(p) == Done(p) /\ HasRead(p) /\ loc[p].polPresent /\ loc[p].decision = Deny

\* C28: a call denied by a policy whose mode is Enforcing returns Deny
\* whatever the engine-wide mode (which can only tighten), and a call denied
\* by a policy whose mode is Permissive returns Allow unless the engine-wide
\* mode is Enforcing
C28_PolicyModeApplies ==
    \A p \in Procs :
        DeniedByPolicy(p) =>
            /\ loc[p].pol.Mode = Enforcing => loc[p].ret = Deny
            /\ (loc[p].pol.Mode = Permissive /\ loc[p].retMode = Permissive)
                   => loc[p].ret = Allow

(***************************************************************************)
(* Cache keys of (agent type, tool) pairs                                  *)
(***************************************************************************)
\* a tool name with the key separator in it, as a caller may pass it
ToolColon == <<"b", ":", "f", ".", "r">>

\* calls on both agent types; the router's name normalisation lower-cases
\* B:f.r to b:f.r
KeyCalls ==
    [via : {"engine"}, at : AgentTypes, raw : {ToolRead}, req : {ReqNil},
     metaOK : {TRUE}, paramsOK : {TRUE}]
    \cup [via : {"engine"}, at : {AgentA}, raw : {ToolColon}, req : {ReqNil},
          metaOK : {TRUE}, paramsOK : {TRUE}]
    \cup [via : {"router"}, at : {AgentA}, raw : {<<"B", ":", "f", ".", "r">>}, req : {ReqNil},
          metaOK : {TRUE}, paramsOK : {TRUE}]

\* Sequential use of an engine that holds policies for both agent types
NextKeys ==
    \/ \E call \in KeyCalls : Quiescent /\ EvalStart(1, call)
    \/ EvalLookup(1)
    \/ EvalStore(1)
    \/ EvalFinish(1)
    \/ \E a \in AgentTypes, pol \in {PolicyPlain, PolicyOpen} : Quiescent /\ LoadPolicy(a, pol)
    \/ InvalidateStep

SpecKeys == InitTable /\ [][NextKeys]_vars

\* C29: a call and the call before it on the same cache key are for the same
\* (agent type, tool) pair, so a cache hit returns a decision that was
\* computed for the pair of the call
C29_KeysSeparatePairs ==
    \A p \in Procs :
        (loc[p].evaluated /\ loc[p].prev.valid) =>
            /\ loc[p].prev.key = loc[p].key
            /\ loc[p].prev.at = loc[p].at
            /\ loc[p].prev.tool = loc[p].tool

(***************************************************************************)
(* Cache TTL: DecisionCache.Get and DecisionCache.Set                      *)
(***************************************************************************)
\* DecisionCache.Set called by a goroutine of its own
Set(key, decision, reason) ==
    /\ cache' = CacheSet(cache, key, decision, reason, now, ver[AgentA])
    /\ cache' # cache
    /\ loc' = OtherLoc
    /\ last' = Touch(last)
    /\ UNCHANGED <<policies, opaPolicies, hits, misses, mode, config, aside, chanSink, audit, now,
                   pc, adm, nEvals, nOps, nModes, ver, quietInv, raced>>

\* Two goroutines call Evaluate (whose first step is cache.Get) on one key
\* while a third calls cache.Set on that key and the clock advances
NextTTL ==
    \/ \E p \in Procs, call \in ConcCalls : EvalStart(p, call)
    \/ \E p \in Procs : EvalExpire(p)
    \/ \E p \in Procs : EvalLookup(p)
    \/ \E p \in Procs : EvalStore(p)
    \/ \E p \in Procs : EvalFinish(p)
    \/ Set(CacheKey(AgentA, ToolRead), Allow, "set")
    \/ Tick

SpecTTL == InitConc /\ [][NextTTL]_vars

\* the step is the first step of a call of Evaluate by p: cache.Get
GetStep(p) == ~InFlight(p) /\ InFlight(p)'

\* the step holds the entries.Delete of a cache.Get by p
DeleteStep(p) == pc[p] = "expire" /\ pc'[p] # "expire"

\* C30: an entry that has not expired stays in the cache through every step
\* but an invalidation, unchanged or replaced by a newer Set; Get on a key
\* whose entry has not expired is a hit with the entry's decision and reason;
\* Get on a key whose entry has expired is a miss that goes on to delete the
\* entry, and after its delete the key has no entry
C30_CacheTTL ==
    [][/\ \A k \in DOMAIN cache :
             (~Expired(cache[k], now) /\ adm.pc # "inv") =>
                 /\ k \in DOMAIN cache'
                 /\ (cache'[k] = cache[k] \/ cache'[k].expiresAt = now + CacheTTL)
       /\ \A p \in Procs :
             (GetStep(p) /\ loc'[p].key \in DOMAIN cache) =>
                 LET entry == cache[loc'[p].key]
                 IN  IF now <= entry.expiresAt
                     THEN /\ loc'[p].hit
                          /\ loc'[p].decision = entry.decision
                          /\ loc'[p].reason = entry.reason
                     ELSE ~loc'[p].hit /\ pc'[p] = "expire"
       /\ \A p \in Procs :
             DeleteStep(p) => loc[p].key \notin DOMAIN cache'
      ]_vars

(***************************************************************************)
(* Cache statistics                                                        *)
(***************************************************************************)
\* cache.InvalidateAll called by a goroutine of its own
InvalidateAll ==
    /\ cache # EmptyMap
    /\ cache' = InvalidateAllEntries(cache)
    /\ loc' = OtherLoc
    /\ last' = Touch(last)
    /\ UNCHANGED <<policies, opaPolicies, hits, misses, mode, config, aside, chanSink, audit, now,
                   pc, adm, nEvals, nOps, nModes, ver, quietInv, raced>>

\* Two goroutines call Evaluate on one key while the clock advances, the
\* whole cache is invalidated and, between calls, a policy is loaded
NextStats ==
    \/ \E p \in Procs, call \in ConcCalls : EvalStart(p, call)
    \/ \E p \in Procs : EvalExpire(p)
    \/ \E p \in Procs : EvalLookup(p)
    \/ \E p \in Procs : EvalStore(p)
    \/ \E p \in Procs : EvalFinish(p)
    \/ Quiescent /\ LoadPolicy(AgentA, PolicyPlain)
    \/ InvalidateStep
    \/ InvalidateAll
    \/ Tick

SpecStats == InitConc /\ [][NextStats]_vars

\* the calls of cache.Get that have returned: every call of Evaluate but
\* those still between the load of an expired entry and recordMiss
GetsReturned == nEvals - Cardinality({p \in Procs : pc[p] = "expire"})

\* C31: hits + misses is the number of Get calls that have returned, one per
\* Evaluate; a Get adds one hit exactly when it returns an entry (the entry
\* is present and has not expired) and else one miss, at once when the key is
\* absent and after the delete when the entry has expired; no other step, an
\* invalidation included, changes a counter; the hit rate is
\* 100 * hits / (hits + misses), and 0 before the first lookup
C31_CacheStatistics ==
    [][/\ hits' + misses' = GetsReturned'
       /\ \A p \in Procs :
             GetStep(p) =>
                 LET key == loc'[p].key
                     returned == key \in DOMAIN cache /\ ~Expired(cache[key], now)
                 IN  /\ loc'[p].hit <=> returned
                     /\ hits' = IF returned THEN hits + 1 ELSE hits
                     /\ misses' = IF key \in DOMAIN cache THEN misses ELSE misses + 1
       /\ \A p \in Procs : DeleteStep(p) => hits' = hits /\ misses' = misses + 1
       /\ (\A p \in Procs : ~GetStep(p) /\ ~DeleteStep(p)) => UNCHANGED <<hits, misses>>
       /\ LET st == Stats(hits', misses')
          IN  /\ st.hits = hits' /\ st.misses = misses'
              /\ st.hitRate.num * (hits' + misses') = 100 * hits' * st.hitRate.den
              /\ hits' + misses' = 0 => st.hitRate.num = 0
      ]_vars

\* C31 witness: two identical calls on a fresh engine: one miss, one hit, 50%
C31_Witness ==
    /\ nEvals = 2
    /\ \E p \in Procs : JustDone(p) /\ loc[p].hit
    /\ Stats(hits, misses) = [hits |-> 1, misses |-> 1, hitRate |-> Quotient(50, 1)]

(***************************************************************************)
(* The tool table of a compiled policy                                     *)
(***************************************************************************)
\* the longest permission list handed to CompilePolicy
MaxPermissions == 3

\* permission lists over two tools and both actions, repetitions included
PermLists ==
    UNION {[1..n -> {ToolPermission(t, a, FALSE, NoConstraints) :
                        t \in Tools, a \in Decisions}] : n \in 0..MaxPermissions}

\* CompilePolicy on a permission list
TablePolicy(permissions) ==
    CompilePolicy("table", <<AgentA>>, Deny, permissions, Enforcing, EmptyStr)

\* calls for both tools
TableCalls ==
    [via : {"engine"}, at : {AgentA}, raw : Tools, req : {ReqNil},
     metaOK : {TRUE}, paramsOK : {TRUE}]

\* Policies compiled from every permission list are loaded and evaluated
NextTable ==
    \/ \E call \in TableCalls : Quiescent /\ EvalStart(1, call)
    \/ EvalLookup(1)
    \/ EvalStore(1)
    \/ EvalFinish(1)
    \/ \E permissions \in PermLists : Quiescent /\ LoadPolicy(AgentA, TablePolicy(permissions))
    \/ InvalidateStep

SpecTable == InitConc /\ [][NextTable]_vars

\* the permission lists the loaded policy of an agent type was compiled from
CompiledFromLists(a) == {permissions \in PermLists : TablePolicy(permissions) = policies[a]}

RawNames ==
    {ToolRead, <<"F", ".", "R">>, <<"F", "R">>, <<"f", "_", "r">>, <<"f", "_", "R">>,
     <<"f", "R">>, <<"F", "_", "r">>, <<"a", ".", "B", "_", "c">>, <<"F">>, <<"_">>,
     <<"f", "i", "l", "e", ".", "r", "e", "a", "d">>,
     <<"F", "i", "l", "e", "R", "e", "a", "d">>,
     <<"f", "i", "l", "e", "_", "r", "e", "a", "d">>,
     EmptyStr}

NameCalls ==
    [via : {"router"}, at : {AgentA}, raw : RawNames, req : {ReqNil},
     metaOK : {TRUE}, paramsOK : {TRUE}]

\* Sequential calls of RouterPolicyIntegration.Evaluate with every raw name
NextNames ==
    \/ \E call \in NameCalls : Quiescent /\ EvalStart(1, call)
    \/ EvalLookup(1)
    \/ EvalStore(1)
    \/ EvalFinish(1)
    \/ \E pol \in {PolicyPlain, PolicyOpen} : Quiescent /\ LoadPolicy(AgentA, pol)
    \/ InvalidateStep

SpecNames == InitConc /\ [][NextNames]_vars

\* the canonical name character by character: in a name without ".", a "."
\* before every upper-case character but the one in first position, "." for
\* "_", and every character lower-cased
RECURSIVE CanonicalFrom(_, _)
CanonicalFrom(raw, i) ==
    IF i > Len(raw) THEN << >>
    ELSE (IF i > 1 /\ IsUpperChar(raw[i]) THEN <<".">> ELSE << >>)
         \o <<IF raw[i] = "_" THEN "." ELSE ToLowerChar(raw[i])>>
         \o CanonicalFrom(raw, i + 1)

Canonical(raw) ==
    IF ContainsChar(raw, ".") THEN [i \in 1..Len(raw) |-> ToLowerChar(raw[i])]
    ELSE CanonicalFrom(raw, 1)

\* a "." before every upper-case character but the one in first position,
\* every character lower-cased, underscores kept
RECURSIVE CamelFrom(_, _)
CamelFrom(raw, i) ==
    IF i > Len(raw) THEN << >>
    ELSE (IF i > 1 /\ IsUpperChar(raw[i]) THEN <<".">> ELSE << >>)
         \o <<ToLowerChar(raw[i])>> \o CamelFrom(raw, i + 1)

\* the canonical name as three exclusive cases: dotted, else camel-cased,
\* else with underscores
CanonicalExclusive(raw) ==
    IF ContainsChar(raw, ".") THEN [i \in 1..Len(raw) |-> ToLowerChar(raw[i])]
    ELSE IF \E i \in 2..Len(raw) : IsUpperChar(raw[i]) THEN CamelFrom(raw, 1)
    ELSE [i \in 1..Len(raw) |-> IF raw[i] = "_" THEN "." ELSE ToLowerChar(raw[i])]

\* a call of RouterPolicyIntegration.Evaluate has returned
RouterDone(p) == pc[p] = "done" /\ loc[p].via = "router"

\* C33 as stated: the canonical name is the lower-cased name when it
\* contains ".", else the camel-case split when a later character is
\* upper-case, else the name with "_" replaced by "."
C33_NormalizationAsStated ==
    \A p \in Procs : RouterDone(p) => loc[p].tool = CanonicalExclusive(loc[p].raw)

\* C33: a name containing "." is lower-cased and otherwise unchanged; in any
\* other name a "." is put before every upper-case letter but one in first
\* position and every "_" becomes "." as well, the result being lower-case;
\* the cache key and the table evaluation use the canonical name
C33_Normalization ==
    \A p \in Procs :
        RouterDone(p) =>
            /\ loc[p].tool = Canonical(loc[p].raw)
            /\ \A i \in 1..Len(loc[p].tool) : ~IsUpperChar(loc[p].tool[i])
            /\ loc[p].evaluated <=> loc[p].tool # EmptyStr
            /\ loc[p].evaluated => loc[p].key = CacheKey(loc[p].at, Canonical(loc[p].raw))
            /\ (HasRead(p) /\ loc[p].polPresent) =>
                   LET d == evaluatePolicy(loc[p].pol, Canonical(loc[p].raw), loc[p].req)
                   IN  loc[p].decision = d.decision /\ loc[p].reason = d.reason

\* C33 witness: FileRead, file_read and FR were evaluated as file.read,
\* file.read and f.r, the last one allowed by the table entry for f.r
C33_Witness ==
    /\ extractToolName(<<"F", "i", "l", "e", "R", "e", "a", "d">>)
          = <<"f", "i", "l", "e", ".", "r", "e", "a", "d">>
    /\ extractToolName(<<"f", "i", "l", "e", "_", "r", "e", "a", "d">>)
          = <<"f", "i", "l", "e", ".", "r", "e", "a", "d">>
    /\ \E p \in Procs :
          /\ JustDone(p) /\ RouterDone(p) /\ HasRead(p) /\ loc[p].polPresent
          /\ loc[p].raw = <<"F", "R">>
          /\ loc[p].tool = ToolRead
          /\ loc[p].decision = Allow

\* the step is a whole call of RouterPolicyIntegration.Evaluate by p with a
\* tool name whose canonical form is empty
EmptyNameStep(p) ==
    /\ nEvals' = nEvals + 1
    /\ pc[p] \in {"idle", "done"}
    /\ loc'[p].via = "router"
    /\ extractToolName(loc'[p].raw) = EmptyStr
    /\ loc'[p] # loc[p] \/ pc'[p] # pc[p]

\* C34: a call of RouterPolicyIntegration.Evaluate with a tool name whose
\* canonical form is empty returns Deny and the error "empty tool name" in
\* one step and leaves the cache, its counters, the audit trail and the
\* policies as they were
C34_EmptyToolName ==
    [][\A p \in Procs :
          EmptyNameStep(p) =>
              /\ pc'[p] = "done"
              /\ ~loc'[p].evaluated
              /\ loc'[p].ret = Deny
              /\ loc'[p].err = "empty tool name"
              /\ UNCHANGED <<cache, hits, misses, audit, policies, opaPolicies>>
      ]_vars

\* C34 witness: on an engine with a policy, a cache entry, one counted lookup
\* and one audit event, the second call had an empty tool name
C34_Witness ==
    /\ nEvals = 2
    /\ AgentA \in DOMAIN policies
    /\ cache # EmptyMap
    /\ hits + misses = 1
    /\ Len(audit) = 1
    /\ \E p \in Procs :
          /\ pc[p] = "done" /\ ~loc[p].evaluated
          /\ loc[p].via = "router" /\ loc[p].raw = EmptyStr
          /\ loc[p].ret = Deny /\ loc[p].err = "empty tool name"

(***************************************************************************)
(* AgentPolicyReconciler: Reconcile, compilePolicy, handleDeletion         *)
(***************************************************************************)
\* number of resource changes (apply, delete) and of Reconcile calls
MaxChanges == 2
MaxReconciles == 2

\* resource names
PolicyNames == {"n"}

\* an AgentPolicy spec: its agent types; accepted says whether the OPA
\* compiler accepts the module text generated from it
AgentPolicySpec(agentTypes, accepted) == [agentTypes |-> agentTypes, accepted |-> accepted]

\* the versions of the resource: for one or both agent types; with UseOPA
\* the compiler accepts or rejects the generated module
AgentPolicySpecs(name) ==
    {AgentPolicySpec(ats, ok) : ats \in {<<AgentA>>, <<AgentA, AgentAB>>},
                                ok \in IF useOPA THEN BOOLEAN ELSE {TRUE}}

\* AgentPolicyReconciler.compilePolicy: default deny with f.r allowed; with
\* UseOPA the module is generated and handed to CompilePolicyWithOPA
compilePolicy(name, ap) ==
    IF useOPA
    THEN CompilePolicyWithOPA(name, ap.agentTypes, Deny, PermsPlain, Enforcing, EmptyStr,
             [CompileToRego(RegoPolicySpec(name, "deny",
                  << [Tool |-> ToolRead, Action |-> "allow", HasConstraints |-> FALSE,
                      Constraints |-> NoConstraints] >>, EmptyStr, ""))
                EXCEPT !.accepted = ap.accepted])
    ELSE [ok |-> TRUE,
          policy |-> CompilePolicy(name, ap.agentTypes, Deny, PermsPlain, Enforcing, EmptyStr)]

\* every order in which the map iteration of ListPolicies may yield the keys
Orderings(S) ==
    {seq \in [1..Cardinality(S) -> S] : \A i, j \in 1..Cardinality(S) : i # j => seq[i] # seq[j]}

\* everything but the reconciler stays as it is
OnlyReconciler ==
    UNCHANGED <<policies, opaPolicies, cache, hits, misses, mode, config, audit, now, pc, loc,
                adm, nEvals, nOps, nModes, ver, quietInv, raced, last, access, labelOps,
                emitter, chanSink>>

\* the API server stores a created or updated AgentPolicy; a change that
\* arrives during a Reconcile call, which read the resource at its start, is
\* taken after the call
ApplyResource(name, ap) ==
    /\ reconciler.pc = "idle"
    /\ reconciler.changes < MaxChanges
    /\ IF name \in DOMAIN reconciler.store THEN reconciler.store[name] # ap ELSE TRUE
    /\ reconciler' = [reconciler EXCEPT
                         !.changes = @ + 1,
                         !.store = [n \in DOMAIN @ \cup {name} |-> IF n = name THEN ap ELSE @[n]]]
    /\ OnlyReconciler

\* the API server deletes an AgentPolicy
DeleteResource(name) ==
    /\ reconciler.pc = "idle"
    /\ reconciler.changes < MaxChanges
    /\ name \in DOMAIN reconciler.store
    /\ reconciler' = [reconciler EXCEPT
                         !.changes = @ + 1,
                         !.store = [n \in DOMAIN @ \ {name} |-> @[n]]]
    /\ OnlyReconciler

\* Reconcile up to the first LoadPolicy or RemovePolicy: r.Get, then
\* handleDeletion's ListPolicies when the resource is gone, else
\* compilePolicy, which ends the call when it fails
ReconcileStart(name) ==
    /\ reconciler.pc = "idle"
    /\ adm.pc = "idle"
    /\ Len(reconciler.done) < MaxReconciles
    /\ LET started == [reconciler EXCEPT !.name = name, !.before = policies,
                                         !.opsBase = Len(adm.ops)]
       IN  IF name \notin DOMAIN reconciler.store
           THEN \E todo \in Orderings(ListPolicies(policies)) :
                   reconciler' = [started EXCEPT !.pc = "deleting", !.todo = todo]
           ELSE LET r == compilePolicy(name, reconciler.store[name])
                IN  IF r.ok
                    THEN reconciler' = [started EXCEPT
                                           !.pc = "loading", !.compiled = r.policy,
                                           !.todo = reconciler.store[name].agentTypes]
                    ELSE reconciler' = [started EXCEPT
                                           !.done = Append(@, [name |-> name, result |-> "error"])]
    /\ OnlyReconciler

\* Reconcile: r.PolicyEngine.LoadPolicy(agentType, compiled) for the next
\* agent type of the spec
ReconcileLoad ==
    /\ reconciler.pc = "loading"
    /\ reconciler.todo # << >>
    /\ LoadPolicyLocked(Head(reconciler.todo), reconciler.compiled)
    /\ reconciler' = [reconciler EXCEPT !.todo = Tail(@)]
    /\ UNCHANGED <<nOps, access, labelOps, emitter>>

\* mutant of handleDeletion: RemovePolicy whatever the policy's name is
handleDeletionAll ==
    /\ reconciler.pc = "deleting"
    /\ reconciler.todo # << >>
    /\ RemovePolicyLocked(Head(reconciler.todo))
    /\ UNCHANGED <<nOps, access, labelOps, emitter>>
    /\ reconciler' = [reconciler EXCEPT !.todo = Tail(@)]

\* handleDeletion: GetPolicy for the next listed agent type, RemovePolicy when
\* the policy's name is the deleted resource's
handleDeletion ==
    /\ reconciler.pc = "deleting"
    /\ reconciler.todo # << >>
    /\ adm.pc = "idle"
    /\ LET agentType == Head(reconciler.todo)
           got == GetPolicy(policies, agentType)
       IN  IF got.ok /\ got.policy.Name = reconciler.name
           THEN /\ RemovePolicyLocked(agentType)
                /\ UNCHANGED <<nOps, access, labelOps, emitter>>
           ELSE OnlyReconciler
    /\ reconciler' = [reconciler EXCEPT !.todo = Tail(@)]

\* Reconcile returns after the last agent type
ReconcileReturn ==
    /\ reconciler.pc \in {"loading", "deleting"}
    /\ reconciler.todo = << >>
    /\ adm.pc = "idle"
    /\ reconciler' = [reconciler EXCEPT
                         !.pc = "idle",
                         !.done = Append(@, [name |-> reconciler.name,
                                             result |-> IF reconciler.pc = "loading"
                                                        THEN "loaded" ELSE "deleted"])]
    /\ OnlyReconciler

\* calls for the second agent type
ReconcileCalls ==
    [via : {"engine"}, at : {AgentAB}, raw : {ToolRead}, req : {ReqNil},
     metaOK : {TRUE}, paramsOK : {TRUE}]

\* The reconciler follows the resource of the API server while another
\* component loads a policy of its own for the first agent type and one
\* goroutine calls Evaluate for the second
NextReconcile ==
    \/ \E name \in PolicyNames : \E ap \in AgentPolicySpecs(name) : ApplyResource(name, ap)
    \/ \E name \in PolicyNames : DeleteResource(name)
    \/ \E name \in PolicyNames : ReconcileStart(name)
    \/ ReconcileLoad
    \/ handleDeletion
    \/ ReconcileReturn
    \/ reconciler.pc = "idle" /\ LoadPolicy(AgentA, PolicyPlain)
    \/ InvalidateStep
    \/ \E call \in ReconcileCalls : EvalStart(1, call)
    \/ EvalLookup(1)
    \/ EvalOPA(1)
    \/ EvalStore(1)
    \/ EvalFinish(1)

\* an Enforcing engine with an audit sink, with or without OPA
InitReconcile == Init /\ auditOn /\ hasExecutor /\ mode = Enforcing

SpecReconcile == InitReconcile /\ [][NextReconcile]_vars

(***************************************************************************)
(* Deletion of a policy resource                                           *)
(***************************************************************************)
\* the agent types whose policy in pols is named name
NamedIn(pols, name) == {a \in DOMAIN pols : pols[a].Name = name}

\* the LoadPolicy and RemovePolicy calls since the Reconcile call began
ReconcileOps == SubSeq(adm.ops, reconciler.opsBase + 1, Len(adm.ops))

\* handleDeletion has made its last call and its invalidation is complete
DeletionDone ==
    /\ reconciler.pc = "deleting"
    /\ reconciler.todo = << >>
    /\ adm.pc = "idle"

\* handleDeletion called RemovePolicy once for each agent type whose loaded
\* policy had the deleted name, and made no other call
RemovedTheNamed ==
    LET named == NamedIn(reconciler.before, reconciler.name)
    IN  /\ \A i \in 1..Len(ReconcileOps) : ReconcileOps[i].op = "remove"
        /\ {ReconcileOps[i].at : i \in 1..Len(ReconcileOps)} = named
        /\ Len(ReconcileOps) = Cardinality(named)

\* no cache entry of a removed agent type was computed before its removal
RemovedInvalidated ==
    \A a \in NamedIn(reconciler.before, reconciler.name) :
        \A call \in ReconcileCalls :
            LET k == CacheKey(a, call.raw)
            IN  k \in DOMAIN cache => cache[k].ver = ver[a]

\* a returned call that began when its agent type had been removed and the
\* removal's invalidation was complete
AfterRemoval(p) ==
    /\ pc[p] = "done"
    /\ loc[p].evaluated
    /\ loc[p].startNoPol
    /\ loc[p].startQuiet
    /\ loc[p].startVer > 0

NoPolicyDeny(p) ==
    /\ loc[p].decision = Deny
    /\ loc[p].reason = "no policy defined for agent type"
    /\ loc[p].ret = Deny

LoadingDone ==
    /\ reconciler.pc = "loading"
    /\ reconciler.todo = << >>
    /\ adm.pc = "idle"

\* the agent types the stored spec of the resource lists
SpecAgentTypes(name) ==
    {reconciler.store[name].agentTypes[i] : i \in 1..Len(reconciler.store[name].agentTypes)}

\* C36: when a Reconcile of the resource named N has loaded the policy, the
\* agent types whose loaded policy is named N are exactly those of N's spec.
C36_ReconcileFollowsSpec ==
    LoadingDone => NamedIn(policies, reconciler.name) = SpecAgentTypes(reconciler.name)

(***************************************************************************)
(* Compilation failure                                                     *)
(***************************************************************************)
\* a Reconcile call begins in this step
ReconcileBegins ==
    /\ reconciler.pc = "idle"
    /\ reconciler'.changes = reconciler.changes
    /\ reconciler' # reconciler

\* the resource the call is for exists and the compiler rejects its module
RejectedResource(name) ==
    /\ useOPA
    /\ name \in DOMAIN reconciler.store
    /\ ~reconciler.store[name].accepted

\* C38: a Reconcile of a resource whose generated module the compiler rejects
\* gets an error and no policy from CompilePolicyWithOPA, ends with the error
\* without a LoadPolicy call, and leaves the policy map and the cache as they
\* were.
C38_CompileFailure ==
    [][(ReconcileBegins /\ RejectedResource(reconciler'.name)) =>
          /\ compilePolicy(reconciler'.name, reconciler.store[reconciler'.name])
                 = [ok |-> FALSE, policy |-> NilPolicy]
          /\ reconciler'.pc = "idle"
          /\ reconciler'.done = Append(reconciler.done,
                                       [name |-> reconciler'.name, result |-> "error"])
          /\ adm' = adm
          /\ policies' = policies
          /\ opaPolicies' = opaPolicies
          /\ cache' = cache]_vars

\* the resource was loaded for both agent types, its next version was
\* rejected, and the first version served a call
C38_Witness ==
    /\ reconciler.pc = "idle"
    /\ Len(reconciler.done) = 2
    /\ reconciler.done[1].result = "loaded"
    /\ reconciler.done[2].result = "error"
    /\ RejectedResource("n")
    /\ NamedIn(policies, "n") = {AgentA, AgentAB}
    /\ pc[1] = "done"
    /\ loc[1].polPresent
    /\ loc[1].pol.Name = "n"

(***************************************************************************)
(* Runtime mode switch                                                     *)
(***************************************************************************)
\* Engine.Mode()
Mode == mode

\* the step is a SetMode call
SetModeStep == nModes' = nModes + 1

\* a returned call that was served from the cache the decision of the call
\* before it on the same key, with no policy operation in between
ServedFromPrev(p) ==
    /\ pc[p] = "done"
    /\ loc[p].hit
    /\ loc[p].prev.valid
    /\ ~loc[p].prev.touched

\* C37: SetMode changes the mode and nothing else of the engine; a call
\* returns its underlying decision mapped by the mode in force when it
\* returns, cache hits included, and a hit has the underlying decision of the
\* call that stored it: Deny stored under Permissive comes back as Deny under
\* Enforcing.
C37_SetMode ==
    [][/\ SetModeStep =>
            /\ Mode' \in Modes
            /\ policies' = policies
            /\ opaPolicies' = opaPolicies
            /\ cache' = cache
            /\ hits' = hits
            /\ misses' = misses
            /\ audit' = audit
       /\ \A p \in Procs :
            (pc'[p] = "done" /\ loc'[p].evaluated) =>
                /\ loc'[p].ret = applyMode(loc'[p].retMode, loc'[p].decision)
                /\ pc[p] # "done" => loc'[p].retMode = Mode
       /\ \A p \in Procs :
            ServedFromPrev(p)' =>
                /\ loc'[p].decision = loc'[p].prev.decision
                /\ loc'[p].reason = loc'[p].prev.reason]_vars

\* Deny was stored and returned as Allow under Permissive; after
\* SetMode(Enforcing) the next call hit the entry and returned Deny
C37_Witness ==
    /\ nModes = 1
    /\ ServedFromPrev(1)
    /\ loc[1].prev.retMode = Permissive
    /\ loc[1].prev.decision = Deny
    /\ loc[1].prev.ret = Allow
    /\ ~loc[1].prev.hit
    /\ loc[1].retMode = Enforcing
    /\ loc[1].ret = Deny
    /\ loc[1].key \in DOMAIN cache
    /\ cache[loc[1].key].decision = Deny

(***************************************************************************)
(* Concurrent Get and Set on one cache key                                 *)
(***************************************************************************)
\* C39: the entries.Delete of a Get that found an expired entry removes only
\* an expired entry: an entry a concurrent Set stored since, which has not
\* expired, is in the cache after the Delete.
C39_DeleteOnlyExpired ==
    [][\A p \in Procs :
          (DeleteStep(p) /\ loc[p].key \in DOMAIN cache
                         /\ ~Expired(cache[loc[p].key], now)) =>
              /\ loc[p].key \in DOMAIN cache'
              /\ cache'[loc[p].key] = cache[loc[p].key]]_vars

(***************************************************************************)
(* Table-path decisions and the agent's context                            *)
(***************************************************************************)
\* AgentContext values: one agent type, the other fields varied
ContextCalls ==
    [via : {"engine"}, at : {AgentA}, raw : Tools, req : {ReqNil},
     metaOK : {TRUE}, paramsOK : {TRUE},
     sandboxID : {"sb1", "sb2"}, tenantID : {"t1", "t2"}, sessionID : {"s1", "s2"},
     mtsLabel : {EmptyStr, LabelC1, LabelC2}, policyRef : {"", "plain"}]

\* PolicyPlain with a tenant label
LabelledPolicy(mtsLabel) ==
    CompilePolicy("plain", <<AgentA>>, Deny, PermsPlain, Enforcing, mtsLabel)

NextContext ==
    \/ \E call \in ContextCalls : Quiescent /\ EvalStart(1, call)
    \/ EvalExpire(1)
    \/ EvalLookup(1)
    \/ EvalStore(1)
    \/ EvalFinish(1)
    \/ \E l \in {EmptyStr, LabelC1} : Quiescent /\ LoadPolicy(AgentA, LabelledPolicy(l))
    \/ Quiescent /\ RemovePolicy(AgentA)
    \/ InvalidateStep
    \/ Quiescent /\ Tick

SpecContext == InitConc /\ [][NextContext]_vars

\* the policy without its tenant label
Unlabelled(policy) == [policy EXCEPT !.MTSLabel = EmptyStr]

\* the step holds the policy lookup and the table evaluation of p's call
LookupStep(p) == pc[p] = "lookup" /\ pc'[p] = "store"

\* C40: on the table path the outcome of each step of Evaluate is a function
\* of the agent type, the tool, the request and the engine's cache and policy
\* map, and of no other field of the agent's context; the policy enters
\* without its tenant label.
C40_ContextIndependent ==
    [][\A p \in Procs :
          /\ GetStep(p) =>
                LET l == loc'[p]
                    k == CacheKey(l.at, l.tool)
                IN  /\ l.key = k
                    /\ l.hit = (k \in DOMAIN cache /\ ~Expired(cache[k], now))
                    /\ l.hit => /\ l.decision = cache[k].decision
                                /\ l.reason = cache[k].reason
          /\ LookupStep(p) =>
                LET l == loc[p]
                    d == IF l.at \in DOMAIN policies
                         THEN evaluatePolicy(Unlabelled(policies[l.at]), l.tool, l.req)
                         ELSE DecisionOf(Deny, "no policy defined for agent type")
                IN  /\ loc'[p].decision = d.decision
                    /\ loc'[p].reason = d.reason
          /\ (pc[p] = "store" /\ pc'[p] # "store") =>
                LET k == CacheKey(loc[p].at, loc[p].tool)
                IN  /\ k \in DOMAIN cache'
                    /\ cache'[k].decision = loc[p].decision
                    /\ cache'[k].reason = loc[p].reason
          /\ (pc[p] = "audit" /\ pc'[p] = "done") =>
                /\ loc'[p].ret = applyMode(mode, loc[p].decision)
                /\ loc'[p].decision = loc[p].decision
                /\ loc'[p].reason = loc[p].reason]_vars

\* an agent labelled s0:c2 was allowed by the table of a policy labelled
\* s0:c1, and the decision was stored under the key of agent type and tool
C40_Witness ==
    /\ pc[1] = "done"
    /\ loc[1].evaluated
    /\ ~loc[1].hit
    /\ ~loc[1].usedOPA
    /\ loc[1].mtsLabel = LabelC2
    /\ loc[1].polPresent
    /\ loc[1].pol.MTSLabel = LabelC1
    /\ loc[1].decision = Allow
    /\ loc[1].ret = Allow
    /\ CacheKey(AgentA, ToolRead) \in DOMAIN cache

====
